---- MODULE Spec2Model ----
(***************************************************************************)
(* Client-side synchronisation core of the ludo frontend:                  *)
(*   - GameService      (state store and diff engine)                      *)
(*   - MoveManager / StateCoordinator (animation-gated move delivery)      *)
(*   - ConnectionHandler (single-flight action timeout and recovery)       *)
(*   - WebSocketService  (transport and protocol router)                   *)
(*   - EventBus          (emit, subscribe, unsubscribe)                    *)
(* Each component has its own next-state relation and specification; the   *)
(* variables of the other components are left unchanged. The outputs of    *)
(* the connection handlers and the promises of connect() are recorded by   *)
(* the specifications that follow them (SpecConnection, SpecLifecycle).    *)
(***************************************************************************)
EXTENDS Integers, Sequences, FiniteSets, TLC

VARIABLES
  \* ---- GameService -----------------------------------------------------
  currentState,      \* GameService.currentState (Null or a snapshot)
  busLog,            \* events emitted on the EventBus by the last handler run
  lastCall,          \* arguments seen by the last updateGameState call
  overHistory,       \* gameOver flags of the snapshots of a counted sequence
  endedCount,        \* game.ended events emitted during that sequence
  svcConnected,      \* GameService.isConnected
  svcGameId,         \* GameService.currentGameId (Null or a game id)
  afterDisconnect,   \* "lost": a snapshot was just discarded; "first": the last
                     \* handler run was the first update after that; else "no"
  lastFrame,         \* the frame the last router run handled, and whether the run threw
  \* ---- StateCoordinator / MoveManager -----------------------------------
  activeAnimations,  \* StateCoordinator.activeAnimations
  timelines,         \* gsap timelines of PiecesContainer still running
  isAnimating,       \* MoveManager.isAnimating
  pendingMoves,      \* MoveManager.pendingMoves
  currentMoves,      \* MoveManager.currentMoves
  movePanel,         \* MoveManager.movePanel exists (TRUE) or is null (FALSE)
  isProcessingMove,  \* MoveManager.isProcessingMove
  delivered,         \* batches shown to the user, in order
  suppressed,        \* batches that arrived while isAnimating since the last delivery
  nextBatch,         \* number of the next batch to arrive
  hideTween,         \* the fade-out tween of hideMoves is running on the panel
  gateLog,           \* what the last gate handler run was and did
  gateTrace,         \* the handler runs of the gate so far, while they are few
  \* ---- ConnectionHandler -------------------------------------------------
  diceTimeout,       \* ConnectionHandler.diceTimeout (0 = null, else a timer handle)
  connectionTimeout, \* ConnectionHandler.connectionTimeout (0 = null, else a handle)
  isOffline,         \* ConnectionHandler.isOffline
  timers,            \* timers pending in the runtime
  nextTimerId,       \* next handle setTimeout returns
  lastArmed,         \* handle of the most recent startDiceTimeout (0 = none yet)
  armings,           \* number of startDiceTimeout calls so far
  cancelled,         \* armings cleared before they expired
  fired,             \* dice timers that expired, in order
  recoveryLog,       \* recovery outputs, each tagged with the arming that caused it
  connLog,           \* the last connection or error handler run and what it put out
  \* ---- WebSocketService --------------------------------------------------
  connected,         \* WebSocketService.connected
  connecting,        \* WebSocketService.connecting
  clientActive,      \* a STOMP client was activated and not deactivated since
  wsGameId,          \* WebSocketService.currentGameId
  subscriptions,     \* WebSocketService.subscriptions (key -> subscription handle)
  stompSubs,         \* subscriptions open on the STOMP client: records [id, topic]
  nextSubId,         \* next subscription handle
  extracted,         \* results of extractGameId since the handshake, in order
  wsLog,             \* events emitted by the last router handler run
  wsCall,            \* the last WebSocketService call and what it did to the client
  promises,          \* promises returned by connect(), in call order
  clientPromise,     \* index of the promise the active client settles (0 = none)
  \* ---- parseMoveOptions and the delayed emits ----
  parseMessage,      \* the text handed to parseMoveOptions (null before a text is chosen)
  parsedMoves,       \* the array the last call returned (null before the first call)
  moveTimers,        \* setTimeout callbacks of GameService that wait to emit
                     \* moves.available, in the order they were set
  turnTimers,        \* setTimeout callbacks of WebSocketService that wait to emit
                     \* turn.changed for a YOUR_TURN frame, in the order they were set
  \* ---- EventBus ----------------------------------------------------------
  listeners,         \* EventBus.listeners[event] for one event name
  emitLog            \* the last emit(event, data): the array it started from, the
                     \* calls it made in order, and whether it threw to its caller

storeVars == <<currentState, busLog, lastCall, overHistory, endedCount,
               svcConnected, svcGameId, afterDisconnect, lastFrame>>
gateVars  == <<activeAnimations, timelines, isAnimating, pendingMoves, currentMoves,
               movePanel, isProcessingMove, delivered, suppressed, nextBatch,
               hideTween, gateLog, gateTrace>>
timerVars == <<diceTimeout, connectionTimeout, isOffline, timers, nextTimerId,
               lastArmed, armings, cancelled, fired, recoveryLog, connLog>>
wsVars    == <<connected, connecting, clientActive, wsGameId, subscriptions, stompSubs, nextSubId,
               extracted, wsLog, wsCall, promises, clientPromise>>
optionVars == <<parseMessage, parsedMoves, moveTimers, turnTimers>>
busVars == <<listeners, emitLog>>
vars == <<storeVars, gateVars, timerVars, wsVars, optionVars, busVars>>

\* JavaScript null / undefined
Null == [null |-> TRUE]
\* a JavaScript string value
Text(chars) == [text |-> chars]

(***************************************************************************)
(* Bounds                                                                  *)
(***************************************************************************)
MaxUpdates    == 5   \* snapshots passed to the store in a counted sequence
MaxBatches    == 3   \* move-option batches that arrive
MaxAnimations == 2   \* piece animations in flight at once
MaxTrace      == 4   \* handler runs recorded in gateTrace
MaxArmings    == 3   \* calls of startDiceTimeout
MaxSubscribes == 4   \* calls of stompClient.subscribe
MaxAcks       == 3   \* creation acks received after one handshake
MaxConnects   == 3   \* calls of connect() whose promise is followed
MaxLines      == 2   \* lines of a text in the detailed form
MaxPendingOptions == 1   \* callbacks that wait to emit moves.available
MaxPendingTurns == 2     \* callbacks that wait to emit turn.changed
MaxListeners  == 3   \* callbacks registered for the event

(***************************************************************************)
(* Snapshots the server can send                                           *)
(***************************************************************************)
\* game ids the lobby events can carry
GameIds   == { Text(<<"A","B","C","D">>) }
PieceIds  == {1, 2}
PlayerIds == {"p1", "p2"}
Positions == { [row |-> 0, col |-> 0], [row |-> 0, col |-> 1], [row |-> 1, col |-> 0] }
DiceFaces == { [die1 |-> 0, die2 |-> 0], [die1 |-> 6, die2 |-> 0], [die1 |-> 0, die2 |-> 6] }

PieceColor(id) == IF id = 1 THEN "red" ELSE "blue"

\* a piece as the server reports it; the flags follow from where the piece stands
Piece(id, pos) ==
  [ id         |-> id,
    color      |-> PieceColor(id),
    position   |-> pos,
    atHome     |-> (pos = [row |-> 0, col |-> 0]),
    inSafeZone |-> (pos = [row |-> 1, col |-> 0]),
    finished   |-> FALSE ]

PieceLists ==
  { <<>>, <<Piece(2, [row |-> 0, col |-> 0])>> }
  \cup { <<Piece(1, p)>> : p \in Positions }
  \cup { <<Piece(1, p), Piece(2, q)>> :
            p \in Positions \ {[row |-> 1, col |-> 0]},
            q \in Positions \ {[row |-> 1, col |-> 0]} }

Snapshot(d, pl, ps, over) ==
  [ dice              |-> d,
    currentPlayerId   |-> pl,
    currentPlayerName |-> pl,
    pieces            |-> ps,
    gameStatus        |-> IF over THEN "FINISHED" ELSE "IN_PROGRESS",
    gameOver          |-> over,
    winner            |-> IF over THEN pl ELSE "none" ]

Snapshots ==
  { Snapshot(d, pl, ps, over) : d \in DiceFaces, pl \in PlayerIds,
                                ps \in PieceLists, over \in BOOLEAN }

(***************************************************************************)
(* GameService: diff engine                                                *)
(***************************************************************************)
\* Array.prototype.find(p => p.id === id): index of the first match, 0 if none
FindPiece(oldPieces, id) ==
  IF \E i \in 1..Len(oldPieces) : oldPieces[i].id = id
  THEN CHOOSE i \in 1..Len(oldPieces) :
         /\ oldPieces[i].id = id
         /\ \A j \in 1..(i - 1) : oldPieces[j].id # id
  ELSE 0

Movement(oldPiece, newPiece) ==
  [ pieceId   |-> newPiece.id,
    color     |-> newPiece.color,
    from      |-> oldPiece.position,
    to        |-> newPiece.position,
    fromState |-> [atHome |-> oldPiece.atHome, inSafeZone |-> oldPiece.inSafeZone,
                   finished |-> oldPiece.finished],
    toState   |-> [atHome |-> newPiece.atHome, inSafeZone |-> newPiece.inSafeZone,
                   finished |-> newPiece.finished] ]

\* variant: only the row is compared
PositionDiffers_RowOnly(oldPiece, newPiece) ==
  oldPiece.position.row # newPiece.position.row

PositionDiffers(oldPiece, newPiece) ==
  \/ oldPiece.position.row # newPiece.position.row
  \/ oldPiece.position.col # newPiece.position.col

RECURSIVE CalculatePieceMovements(_, _)
CalculatePieceMovements(oldPieces, newPieces) ==
  IF newPieces = <<>> THEN <<>>
  ELSE LET newPiece == Head(newPieces)
           k        == FindPiece(oldPieces, newPiece.id)
           rest     == CalculatePieceMovements(oldPieces, Tail(newPieces))
       IN  IF k # 0 /\ PositionDiffers(oldPieces[k], newPiece)
           THEN <<Movement(oldPieces[k], newPiece)>> \o rest
           ELSE rest

\* variant: the first die is compared with the other die of the new snapshot
DiceChanged_Crossed(oldState, newState) ==
  \/ oldState = Null
  \/ oldState.dice.die1 # newState.dice.die2
  \/ oldState.dice.die2 # newState.dice.die1

DiceChanged(oldState, newState) ==
  \/ oldState = Null
  \/ oldState.dice.die1 # newState.dice.die1
  \/ oldState.dice.die2 # newState.dice.die2

DiceEvents(oldState, newState) ==
  IF DiceChanged(oldState, newState)
  THEN << [type |-> "dice.updated",
           old  |-> IF oldState = Null THEN Null ELSE oldState.dice,
           new  |-> newState.dice] >>
  ELSE <<>>

PieceEvents(oldState, newState) ==
  IF oldState # Null
  THEN LET movements == CalculatePieceMovements(oldState.pieces, newState.pieces)
       IN  IF Len(movements) > 0
           THEN << [type |-> "pieces.moved", movements |-> movements] >>
           ELSE <<>>
  ELSE <<>>

\* variant: the turn diff needs an old snapshot to compare with
TurnChanged_Compared(oldState, newState) ==
  oldState # Null /\ oldState.currentPlayerId # newState.currentPlayerId

TurnChanged(oldState, newState) ==
  oldState = Null \/ oldState.currentPlayerId # newState.currentPlayerId

TurnEvents(oldState, newState) ==
  IF TurnChanged(oldState, newState)
  THEN << [type      |-> "turn.changed",
           oldPlayer |-> IF oldState = Null THEN "none" ELSE oldState.currentPlayerId,
           newPlayer |-> newState.currentPlayerId,
           playerName |-> newState.currentPlayerName] >>
  ELSE <<>>

\* variant: level-triggered, fires whenever the new snapshot is over
GameEnded_Level(oldState, newState) == newState.gameOver

GameEnded(oldState, newState) ==
  newState.gameOver /\ (oldState = Null \/ ~oldState.gameOver)

GameOverEvents(oldState, newState) ==
  IF GameEnded(oldState, newState)
  THEN << [type |-> "game.ended", winner |-> newState.winner,
           gameStatus |-> newState.gameStatus] >>
  ELSE <<>>

\* variant: the turn diff runs before the piece diff
EmitStateChangeEvents_TurnFirst(oldState, newState) ==
  DiceEvents(oldState, newState) \o TurnEvents(oldState, newState)
    \o PieceEvents(oldState, newState) \o GameOverEvents(oldState, newState)

EmitStateChangeEvents(oldState, newState) ==
  DiceEvents(oldState, newState) \o PieceEvents(oldState, newState)
    \o TurnEvents(oldState, newState) \o GameOverEvents(oldState, newState)

StateUpdatedEvent(oldState, newState) ==
  [type |-> "game.state.updated", oldState |-> oldState, newState |-> newState]

\* the events one updateGameState call emits, in emission order
UpdateEvents(oldState, newState) ==
  EmitStateChangeEvents(oldState, newState) \o <<StateUpdatedEvent(oldState, newState)>>

\* variant: a field-level merge that keeps the old pieces when the new list is empty
StoredAfterUpdate_Merge(oldState, newState) ==
  IF oldState # Null /\ newState.pieces = <<>>
  THEN [newState EXCEPT !.pieces = oldState.pieces]
  ELSE newState

\* the snapshot the store holds after updateGameState(newState)
StoredAfterUpdate(oldState, newState) == newState

CountType(log, t) == Cardinality({ i \in 1..Len(log) : log[i].type = t })

\* updateGameState(newState): replace the snapshot, emit the diff events
UpdateGameState(newState) ==
  LET oldState == currentState
  IN  /\ currentState' = StoredAfterUpdate(oldState, newState)
      /\ busLog' = UpdateEvents(oldState, newState)
      /\ lastCall' = [old |-> oldState, new |-> newState]
      /\ afterDisconnect' = IF afterDisconnect = "lost" THEN "first" ELSE "no"

\* a frame carrying a snapshot (success && data) reaches updateGameState
StoreUpdate(newState) ==
  /\ UpdateGameState(newState)
  /\ UNCHANGED <<overHistory, endedCount, svcConnected, svcGameId, lastFrame>>
  /\ UNCHANGED <<gateVars, timerVars, wsVars, optionVars, busVars>>

\* variant: the snapshot survives the disconnect
StateAfterDisconnect_Keep(held) == held

\* websocket.disconnected listener: this.currentState = null
StateAfterDisconnect(held) == Null

\* listener of websocket.disconnected in GameService: the connection flag, the
\* snapshot and the game id are dropped and game.connection.lost is emitted
GameServiceDisconnected ==
  /\ svcConnected' = FALSE
  /\ currentState' = StateAfterDisconnect(currentState)
  /\ svcGameId' = Null
  /\ busLog' = << [type |-> "game.connection.lost"] >>
  /\ lastCall' = Null
  /\ overHistory' = <<>>
  /\ endedCount' = 0
  /\ afterDisconnect' = IF currentState # Null THEN "lost" ELSE "no"
  /\ lastFrame' = Null

\* websocket.disconnected while no game scene is mounted
StoreDisconnected ==
  /\ GameServiceDisconnected
  /\ UNCHANGED <<gateVars, timerVars, wsVars, optionVars, busVars>>

\* listeners of game.created and game.joined: this.currentGameId = data.gameId
GameEntered(gameId) ==
  /\ svcGameId' = gameId
  /\ busLog' = << [type |-> "lobby.game.entered", gameId |-> gameId] >>
  /\ afterDisconnect' = IF afterDisconnect = "first" THEN "no" ELSE afterDisconnect
  /\ UNCHANGED <<currentState, lastCall, overHistory, endedCount, svcConnected, lastFrame>>
  /\ UNCHANGED <<gateVars, timerVars, wsVars, optionVars, busVars>>

InitStore ==
  /\ currentState = Null
  /\ busLog = <<>>
  /\ lastCall = Null
  /\ overHistory = <<>>
  /\ endedCount = 0
  /\ svcConnected = FALSE
  /\ svcGameId = Null
  /\ afterDisconnect = "no"
  /\ lastFrame = Null

NextStore ==
  \/ \E s \in Snapshots : StoreUpdate(s)
  \/ StoreDisconnected

(***************************************************************************)
(* The same store driven by a bounded sequence of snapshots, with the      *)
(* sequence of gameOver flags and the game.ended events counted            *)
(***************************************************************************)
SequenceSnapshots ==
  { Snapshot(d, pl, ps, over) :
      d \in { [die1 |-> 0, die2 |-> 0], [die1 |-> 6, die2 |-> 0] },
      pl \in PlayerIds,
      ps \in { <<>>, <<Piece(1, [row |-> 0, col |-> 0])>> },
      over \in BOOLEAN }

SequenceUpdate(newState) ==
  /\ Len(overHistory) < MaxUpdates
  /\ UpdateGameState(newState)
  /\ overHistory' = Append(overHistory, newState.gameOver)
  /\ endedCount' = endedCount + CountType(busLog', "game.ended")
  /\ UNCHANGED <<svcConnected, svcGameId, lastFrame>>
  /\ UNCHANGED <<gateVars, timerVars, wsVars, optionVars, busVars>>

NextSequence ==
  \/ \E s \in SequenceSnapshots : SequenceUpdate(s)
  \/ StoreDisconnected
  \/ \E gameId \in GameIds : GameEntered(gameId)

(***************************************************************************)
(* GameService: the move-options parser                                    *)
(***************************************************************************)
\* the literal lit stands in m at position i
HasAt(m, i, lit) ==
  /\ i + Len(lit) - 1 <= Len(m)
  /\ SubSeq(m, i, i + Len(lit) - 1) = lit

LF == "\n"
CR == "\r"

\* the characters \s matches and trim() removes, and those . does not match
WhiteSpace == { " ", "\t", LF, CR }
LineTerminators == { LF, CR }

DigitChars == <<"0","1","2","3","4","5","6","7","8","9">>
Digits == { DigitChars[i] : i \in 1..10 }
DigitValue(c) == (CHOOSE i \in 1..10 : DigitChars[i] = c) - 1

\* parseInt on a run of decimal digits
RECURSIVE ParseInt(_)
ParseInt(ds) ==
  IF Len(ds) = 0 THEN 0
  ELSE 10 * ParseInt(SubSeq(ds, 1, Len(ds) - 1)) + DigitValue(ds[Len(ds)])

\* a non-negative integer inside a template literal
RECURSIVE NumberToString(_)
NumberToString(n) ==
  IF n < 10 THEN << DigitChars[n + 1] >>
  ELSE NumberToString(n \div 10) \o << DigitChars[(n % 10) + 1] >>

\* String.prototype.trim on a sequence of characters
RECURSIVE TrimLeft(_)
TrimLeft(s) ==
  IF Len(s) > 0 /\ Head(s) \in WhiteSpace THEN TrimLeft(Tail(s)) ELSE s

RECURSIVE TrimRight(_)
TrimRight(s) ==
  IF Len(s) > 0 /\ s[Len(s)] \in WhiteSpace THEN TrimRight(SubSeq(s, 1, Len(s) - 1)) ELSE s

Trim(s) == TrimRight(TrimLeft(s))

\* a greedy quantifier: the length of the longest run of characters that
\* starts at position i, of characters of the class (inside) or of all others
RECURSIVE RunLength(_, _, _, _)
RunLength(s, i, class, inside) ==
  IF i <= Len(s) /\ ((s[i] \in class) = inside)
  THEN 1 + RunLength(s, i + 1, class, inside)
  ELSE 0

\* message.split('\n')
RECURSIVE Split(_)
Split(s) ==
  LET k == RunLength(s, 1, { LF }, FALSE)
  IN  IF k = Len(s) THEN << s >>
      ELSE << SubSeq(s, 1, k) >> \o Split(SubSeq(s, k + 2, Len(s)))

OptionsHead == <<"(","O","p","t","i","o","n","s",":">>

\* /\(Options:\s*(\d+)-(\d+)\)/ tried at position i: the two groups, or null
OptionsMatchAt(m, i) ==
  LET a     == i + Len(OptionsHead)
      k     == RunLength(m, a, WhiteSpace, TRUE)
      d1    == RunLength(m, a + k, Digits, TRUE)
      dash  == a + k + d1
      d2    == RunLength(m, dash + 1, Digits, TRUE)
      close == dash + 1 + d2
  IN  IF /\ HasAt(m, i, OptionsHead)
         /\ d1 > 0
         /\ dash <= Len(m) /\ m[dash] = "-"
         /\ d2 > 0
         /\ close <= Len(m) /\ m[close] = ")"
      THEN [start |-> SubSeq(m, a + k, dash - 1), end |-> SubSeq(m, dash + 1, close - 1)]
      ELSE Null

\* message.match(...): the leftmost match
OptionsMatch(m) ==
  LET hits == { i \in 1..Len(m) : OptionsMatchAt(m, i) # Null }
  IN  IF hits = {} THEN Null
      ELSE OptionsMatchAt(m, CHOOSE i \in hits : \A j \in hits : i <= j)

GameOption == <<"G","a","m","e"," ","o","p","t","i","o","n"," ">>

\* the object pushed for i in the loop of the range form
RangeOption(i) ==
  [number       |-> i,
   description  |-> Text(GameOption \o NumberToString(i)),
   originalLine |-> Text(NumberToString(i) \o <<".", " ">> \o GameOption \o NumberToString(i))]

\* variant: the loop stops before the upper end
RangeOptions_Exclusive(start, end) ==
  IF end <= start THEN <<>>
  ELSE [x \in 1..(end - start) |-> RangeOption(start + x - 1)]

\* for (let i = start; i <= end; i++) moves.push(...)
RangeOptions(start, end) ==
  IF end < start THEN <<>>
  ELSE [x \in 1..(end - start + 1) |-> RangeOption(start + x - 1)]

\* line.match(/^(\d+)\.\s*(.+)/): the two groups, or null. \s* gives back
\* white space until . finds a character it matches
LineMatch(line) ==
  LET d      == RunLength(line, 1, Digits, TRUE)
      k      == RunLength(line, d + 2, WhiteSpace, TRUE)
      starts == { j \in 0..k : d + 2 + j <= Len(line) /\ line[d + 2 + j] \notin LineTerminators }
      from   == d + 2 + (CHOOSE j \in starts : \A x \in starts : x <= j)
      n      == RunLength(line, from, LineTerminators, FALSE)
  IN  IF d > 0 /\ d + 1 <= Len(line) /\ line[d + 1] = "." /\ starts # {}
      THEN [digits |-> SubSeq(line, 1, d), rest |-> SubSeq(line, from, from + n - 1)]
      ELSE Null

\* variant: the line is kept as it came
OriginalLine_Untrimmed(line) == Text(line)

\* originalLine: line.trim()
OriginalLine(line) == Text(Trim(line))

\* lines.forEach(...) of the detailed form
RECURSIVE ParseLines(_)
ParseLines(lines) ==
  IF Len(lines) = 0 THEN <<>>
  ELSE LET match == LineMatch(Head(lines))
           rest  == ParseLines(Tail(lines))
       IN  IF match = Null THEN rest
           ELSE << [number       |-> ParseInt(match.digits),
                    description  |-> Text(Trim(match.rest)),
                    originalLine |-> OriginalLine(Head(lines))] >> \o rest

\* parseMoveOptions(message)
ParseMoveOptions(message) ==
  LET lines        == Split(message)
      optionsMatch == OptionsMatch(message)
  IN  IF optionsMatch # Null /\ Len(lines) = 1
      THEN RangeOptions(ParseInt(optionsMatch.start), ParseInt(optionsMatch.end))
      ELSE ParseLines(lines)

\* texts in range form: a prefix, the marker with its two numerals, a suffix
Numerals == << <<"0">>, <<"1">>, <<"2">>, <<"3">>, <<"4">>, <<"5">>, <<"6">>, <<"7">>,
               <<"8">>, <<"9">>, <<"1","0">>, <<"1","1">>, <<"1","2">> >>
RangeNumerals ==
  { [value |-> n, text |-> Numerals[n + 1]] : n \in { 0, 1, 3, 12 } }
    \cup { [value |-> 3, text |-> <<"0","3">>] }
RangePrefixes == { <<>>, <<"E","n","t","e","r"," ","g","a","m","e"," ","o","p","t","i","o","n"," ">> }
RangeGaps == { <<>>, <<" ">> }
RangeSuffixes == { <<>>, <<"!">> }
RangeText(pre, gap, lo, hi, post) ==
  pre \o OptionsHead \o gap \o lo.text \o <<"-">> \o hi.text \o <<")">> \o post
RangeTexts ==
  { RangeText(pre, gap, lo, hi, post) :
      pre \in RangePrefixes, gap \in RangeGaps, lo \in RangeNumerals, hi \in RangeNumerals,
      post \in RangeSuffixes }

\* lines of the detailed form, each with the option it stands for (null for a
\* line that is no option)
ListedOption(number, description, line) ==
  [number |-> number, description |-> Text(description), line |-> Text(line)]
LineTable ==
  { [text |-> <<"1","."," ","M","o","v","e"," ","A">>,
     option |-> ListedOption(1, <<"M","o","v","e"," ","A">>, <<"1","."," ","M","o","v","e"," ","A">>)],
    [text |-> <<"2",".","M","o","v","e"," ","B">>,
     option |-> ListedOption(2, <<"M","o","v","e"," ","B">>, <<"2",".","M","o","v","e"," ","B">>)],
    [text |-> <<"1","2","."," "," ","C","a","p","t","u","r","e"," "," ">>,
     option |-> ListedOption(12, <<"C","a","p","t","u","r","e">>, <<"1","2","."," "," ","C","a","p","t","u","r","e">>)],
    [text |-> <<"7","."," ","G","o",CR>>,
     option |-> ListedOption(7, <<"G","o">>, <<"7","."," ","G","o">>)],
    [text |-> <<"5","."," ">>,
     option |-> ListedOption(5, <<>>, <<"5",".">>)],
    [text |-> <<" ","3","."," ","I","n","d","e","n","t","e","d">>, option |-> Null],
    [text |-> <<"A","v","a","i","l","a","b","l","e"," ","m","o","v","e","s",":">>, option |-> Null],
    [text |-> <<"4",".">>, option |-> Null],
    [text |-> <<"(","O","p","t","i","o","n","s",":"," ","1","-","3",")">>, option |-> Null],
    [text |-> <<>>, option |-> Null] }

RECURSIVE Join(_)
Join(ls) ==
  IF Len(ls) = 1 THEN ls[1].text
  ELSE ls[1].text \o << LF >> \o Join(Tail(ls))

ListedLines == UNION { [1..n -> LineTable] : n \in 1..MaxLines }
ListedTexts == { Join(ls) : ls \in ListedLines }

ParserTexts == RangeTexts \cup ListedTexts

\* a call parseMoveOptions(parseMessage)
ParseMoveOptionsCall ==
  /\ parseMessage # Null
  /\ parsedMoves' = [returned |-> ParseMoveOptions(parseMessage.text)]
  /\ UNCHANGED <<parseMessage, moveTimers, turnTimers>>
  /\ UNCHANGED <<storeVars, gateVars, timerVars, wsVars, busVars>>

InitParserIdle ==
  parseMessage = Null /\ parsedMoves = Null /\ moveTimers = <<>> /\ turnTimers = <<>>

InitParser ==
  /\ parseMessage \in { Text(m) : m \in ParserTexts }
  /\ parsedMoves = Null
  /\ moveTimers = <<>>
  /\ turnTimers = <<>>

NextParser == ParseMoveOptionsCall

\* C22: for a single-line text containing "(Options: N-M)" parseMoveOptions
\* returns one option for each integer of [N, M] in ascending order, with that
\* number and the description "Game option <n>", and the empty list when N > M
C22_RangeForm ==
  \A pre \in RangePrefixes, gap \in RangeGaps, post \in RangeSuffixes :
    \A lo \in RangeNumerals, hi \in RangeNumerals :
      ( /\ parseMessage = Text(RangeText(pre, gap, lo, hi, post))
        /\ parsedMoves # Null ) =>
          LET moves == parsedMoves.returned
          IN  /\ Len(moves) = IF hi.value < lo.value THEN 0 ELSE hi.value - lo.value + 1
              /\ \A x \in 1..Len(moves) :
                   /\ moves[x].number = lo.value + x - 1
                   /\ moves[x].description = Text(GameOption \o Numerals[lo.value + x])

\* "(Options: 1-3)" parsed into the options 1, 2, 3
C22_Witness ==
  /\ parseMessage = Text(<<"(","O","p","t","i","o","n","s",":"," ","1","-","3",")">>)
  /\ parsedMoves # Null
  /\ Len(parsedMoves.returned) = 3
  /\ parsedMoves.returned[3].number = 3

\* the options a list of table lines stands for, in line order; asWritten
\* chooses the line as it came over the line without surrounding white space
RECURSIVE ListedOptions(_, _)
ListedOptions(ls, asWritten) ==
  IF Len(ls) = 0 THEN <<>>
  ELSE LET e    == Head(ls)
           rest == ListedOptions(Tail(ls), asWritten)
       IN  IF e.option = Null THEN rest
           ELSE << [number       |-> e.option.number,
                    description  |-> e.option.description,
                    originalLine |-> IF asWritten THEN Text(e.text) ELSE e.option.line] >>
                \o rest

\* a text of one line that holds the range marker
InRangeForm(ls) == Len(ls) = 1 /\ ls[1].text = <<"(","O","p","t","i","o","n","s",":"," ","1","-","3",")">>

\* C23 as stated: for a text that is not in range form parseMoveOptions
\* returns, in line order, one option for each line of the form
\* "<integer>. <description>", with that integer, the trimmed description and
\* the original line text; other lines contribute nothing
C23_LinesAsWritten ==
  \A ls \in ListedLines :
    ( /\ parseMessage = Text(Join(ls))
      /\ parsedMoves # Null
      /\ ~InRangeForm(ls) ) =>
        parsedMoves.returned = ListedOptions(ls, TRUE)

\* C23 amended: as above, but the option carries the line text with the white
\* space on either side of it removed
C23_LinesTrimmed ==
  \A ls \in ListedLines :
    ( /\ parseMessage = Text(Join(ls))
      /\ parsedMoves # Null
      /\ ~InRangeForm(ls) ) =>
        parsedMoves.returned = ListedOptions(ls, FALSE)

\* a heading line skipped and an option line with trailing blanks parsed
C23_Witness ==
  /\ parseMessage = Text(<<"A","v","a","i","l","a","b","l","e"," ","m","o","v","e","s",":",LF,"1","2","."," "," ","C","a","p","t","u","r","e"," "," ">>)
  /\ parsedMoves # Null
  /\ Len(parsedMoves.returned) = 1
  /\ parsedMoves.returned[1].number = 12
  /\ parsedMoves.returned[1].originalLine = Text(<<"1","2","."," "," ","C","a","p","t","u","r","e">>)

(***************************************************************************)
(* Inbound frames: WebSocketService routes by type, GameService applies    *)
(* the payload and routes again                                            *)
(***************************************************************************)
PersonalKnownTypes ==
  { "GAME_CREATED", "JOINED_GAME", "YOUR_TURN", "INPUT_REQUIRED", "MOVE_OPTIONS",
    "CAPTURE_OPTIONS", "INVALID_CHOICE", "CHOICE_RECEIVED" }
BroadcastKnownTypes == { "GAME_STARTED", "GAME_STATE_UPDATE", "GAME_MESSAGE", "DICE_ROLLED" }

\* the frames driven through the router here: type tags of either channel, and
\* one tag no switch knows
FrameTypes(channel) ==
  IF channel = "personal" THEN { "CHOICE_RECEIVED", "INPUT_REQUIRED", "SERVER_NOTICE" }
  ELSE { "GAME_STATE_UPDATE", "GAME_MESSAGE", "SERVER_NOTICE" }

\* a data object that is not a snapshot: it has no dice field
OtherData == [other |-> TRUE]
FrameSnapshots ==
  { Snapshot(d, "p1", ps, FALSE) :
      d \in { [die1 |-> 0, die2 |-> 0], [die1 |-> 6, die2 |-> 0] },
      ps \in { <<>>, <<Piece(1, [row |-> 0, col |-> 0])>> } }
FramePayloads == { Null, OtherData } \cup FrameSnapshots

\* frames of the types known today carry a snapshot or no data; a frame of a
\* type added later carries whatever that type defines
Frames(channel) ==
  { fr \in { [type |-> t, success |-> ok, data |-> d] :
               t \in FrameTypes(channel), ok \in BOOLEAN, d \in FramePayloads } :
      fr.data = OtherData => fr.type = "SERVER_NOTICE" }

HasDice(state) == "dice" \in DOMAIN state

\* emitStateChangeEvents reads oldState.dice.die1 and then newState.dice.die1
\* whenever oldState is not null: a TypeError if either has no dice
DiffThrows(oldState, newState) ==
  oldState # Null /\ (~HasDice(oldState) \/ ~HasDice(newState))

\* the events of updateGameState(data) for any data object
DataUpdateEvents(oldState, data) ==
  IF DiffThrows(oldState, data) THEN <<>>
  ELSE IF HasDice(data) THEN UpdateEvents(oldState, data)
  ELSE << [type |-> "dice.updated", old |-> Null, new |-> Null],
          [type |-> "turn.changed", oldPlayer |-> "none", newPlayer |-> "none",
           playerName |-> "none"],
          StateUpdatedEvent(oldState, data) >>

\* if (response.success && response.data) this.updateGameState(response.data)
AppliesData(frame) == frame.success /\ frame.data # Null

\* String.prototype.includes
Includes(s, lit) == \E i \in 1..Len(s) : HasAt(s, i, lit)

\* variant: the "1." has to open the message
IsMoveOptionsMessage_Leading(message) ==
  IF message = Null \/ Len(message.text) = 0 THEN FALSE
  ELSE \/ Includes(message.text, <<"A","v","a","i","l","a","b","l","e"," ","m","o","v","e","s",":">>)
       \/ Includes(message.text, <<"E","n","t","e","r"," ","g","a","m","e"," ","o","p","t","i","o","n">>)
       \/ Includes(message.text, <<"C","h","o","o","s","e"," ","w","h","i","c","h"," ","p","i","e","c","e">>)
       \/ (HasAt(message.text, 1, <<"1", ".">>) /\ Includes(message.text, <<"M","o","v","e">>))

\* isMoveOptionsMessage(message)
IsMoveOptionsMessage(message) ==
  IF message = Null \/ Len(message.text) = 0 THEN FALSE
  ELSE \/ Includes(message.text, <<"A","v","a","i","l","a","b","l","e"," ","m","o","v","e","s",":">>)
       \/ Includes(message.text, <<"E","n","t","e","r"," ","g","a","m","e"," ","o","p","t","i","o","n">>)
       \/ Includes(message.text, <<"C","h","o","o","s","e"," ","w","h","i","c","h"," ","p","i","e","c","e">>)
       \/ (Includes(message.text, <<"1", ".">>) /\ Includes(message.text, <<"M","o","v","e">>))

\* messages of MOVE_OPTIONS and CAPTURE_OPTIONS frames, each with whether it
\* holds a marker phrase or both "1." and "Move"
OptionMessageTable ==
  { [message |-> Null, marked |-> FALSE],
    [message |-> Text(<<>>), marked |-> FALSE],
    [message |-> Text(<<"R","o","l","l"," ","t","h","e"," ","d","i","c","e">>), marked |-> FALSE],
    [message |-> Text(<<"a","v","a","i","l","a","b","l","e"," ","m","o","v","e","s",":">>), marked |-> FALSE],
    [message |-> Text(<<"1","."," ","C","a","p","t","u","r","e">>), marked |-> FALSE],
    [message |-> Text(<<"2","."," ","M","o","v","e"," ","B">>), marked |-> FALSE],
    [message |-> Text(<<"A","v","a","i","l","a","b","l","e"," ","m","o","v","e","s",":",LF,"1","."," ","M","o","v","e"," ","A",LF,"2","."," ","M","o","v","e"," ","B">>), marked |-> TRUE],
    [message |-> Text(<<"E","n","t","e","r"," ","g","a","m","e"," ","o","p","t","i","o","n"," ","(","O","p","t","i","o","n","s",":"," ","1","-","3",")">>), marked |-> TRUE],
    [message |-> Text(<<"C","h","o","o","s","e"," ","w","h","i","c","h"," ","p","i","e","c","e">>), marked |-> TRUE],
    [message |-> Text(<<"1","."," ","M","o","v","e"," ","A">>), marked |-> TRUE],
    [message |-> Text(<<"M","o","v","e"," ","A"," ","o","r"," ","1",".">>), marked |-> TRUE] }

OptionTypes == { "MOVE_OPTIONS", "CAPTURE_OPTIONS" }
OptionPayloads == { Null, Snapshot([die1 |-> 6, die2 |-> 0], "p1", <<>>, FALSE) }
OptionFrames ==
  { [type |-> t, success |-> ok, message |-> e.message, data |-> d] :
      t \in OptionTypes, ok \in BOOLEAN, e \in OptionMessageTable, d \in OptionPayloads }

\* GameService.handlePersonalResponse / handleGameEvent: the payload is applied
\* before the switch on the type; an exception leaves the handler at once
ServiceRoute(channel, oldState, frame) ==
  LET threw   == AppliesData(frame) /\ DiffThrows(oldState, frame.data)
      applied == IF AppliesData(frame) THEN DataUpdateEvents(oldState, frame.data) ELSE <<>>
      options == channel = "personal" /\ frame.type = "MOVE_OPTIONS"
      parses  == options /\ IsMoveOptionsMessage(frame.message)
      routed  == IF frame.type = "GAME_MESSAGE"
                 THEN << [type |-> "game.message", frame |-> frame] >>
                 ELSE IF options
                 THEN IF parses THEN <<>>
                      ELSE << [type |-> "game.input.required", frame |-> frame] >>
                 ELSE << [type |-> IF channel = "personal" THEN "game.response"
                                   ELSE "game.generic.event",
                          frame |-> frame] >>
  IN  [threw   |-> threw,
       events  |-> IF threw THEN applied ELSE applied \o routed,
       delayed |-> IF ~threw /\ parses
                   THEN << [moves      |-> ParseMoveOptions(frame.message.text),
                            rawMessage |-> frame.message] >>
                   ELSE <<>>]

\* WebSocketService.handlePersonalResponse / handleBroadcastEvent decide whether
\* the frame reaches GameService
ReachesService(channel, frame) ==
  IF channel = "personal"
  THEN frame.type \notin PersonalKnownTypes \/ frame.type \in OptionTypes
  ELSE frame.type \notin { "GAME_STARTED", "GAME_MESSAGE", "DICE_ROLLED" }

\* the events WebSocketService emits itself for a frame it does not forward
RouterEvents(channel, frame) ==
  CASE frame.type = "INPUT_REQUIRED" -> << [type |-> "game.input.required", frame |-> frame] >>
    [] frame.type = "GAME_MESSAGE"   -> << [type |-> "game.message", frame |-> frame] >>
    [] frame.type = "GAME_STARTED"   ->
         << [type |-> "game.started", gameState |-> frame.data] >>
         \o IF frame.data # Null THEN << StateUpdatedEvent(Null, frame.data) >> ELSE <<>>
    [] OTHER                         -> <<>>

\* case 'YOUR_TURN': setTimeout(() => emit('turn.changed', ...), 500)
RouterTimers(channel, frame) ==
  IF channel = "personal" /\ frame.type = "YOUR_TURN"
  THEN << [isMyTurn |-> TRUE, frame |-> frame] >>
  ELSE <<>>

\* variant: the frame is passed on with the type it came with
ForwardedFrame_AsReceived(frame) == frame

\* the object WebSocketService passes on: { ...response, type: 'MOVE_OPTIONS' }
\* for CAPTURE_OPTIONS, the response itself otherwise
ForwardedFrame(frame) ==
  IF frame.type = "CAPTURE_OPTIONS" THEN [frame EXCEPT !.type = "MOVE_OPTIONS"] ELSE frame

\* what handling one frame to completion does to the store, the bus and the
\* pending timers; the EventBus catches what the GameService listener throws
FrameRun(channel, frame) ==
  IF ReachesService(channel, frame)
  THEN ServiceRoute(channel, currentState, ForwardedFrame(frame))
  ELSE [threw |-> FALSE, events |-> RouterEvents(channel, frame), delayed |-> <<>>]

FrameEffects(channel, frame, run) ==
  LET applies == ReachesService(channel, frame) /\ AppliesData(frame)
  IN  /\ currentState' = IF applies THEN frame.data ELSE currentState
      /\ busLog' = run.events
      /\ moveTimers' = moveTimers \o run.delayed
      /\ turnTimers' = turnTimers \o RouterTimers(channel, frame)
      /\ lastCall' = IF applies THEN [old |-> currentState, new |-> frame.data] ELSE lastCall
      /\ afterDisconnect' = IF applies /\ afterDisconnect = "lost" THEN "first" ELSE "no"
      /\ UNCHANGED <<overHistory, endedCount, svcConnected, svcGameId>>
      /\ UNCHANGED <<parseMessage, parsedMoves>>
      /\ UNCHANGED <<gateVars, timerVars, wsVars, busVars>>

\* one frame arrives on a channel and is handled to completion
FrameWith(channel, frame, run) ==
  /\ FrameEffects(channel, frame, run)
  /\ lastFrame' = [channel |-> channel, frame |-> frame, threw |-> run.threw]

Frame(channel, frame) == FrameWith(channel, frame, FrameRun(channel, frame))

\* a MOVE_OPTIONS or CAPTURE_OPTIONS frame on the personal queue
OptionsFrame(frame) ==
  LET run == FrameRun("personal", frame)
  IN  /\ Len(moveTimers) + Len(run.delayed) <= MaxPendingOptions
      /\ FrameWith("personal", frame, run)

\* the callback set in the MOVE_OPTIONS case runs after 1000 ms: timers of
\* equal delay run in the order they were set
MoveTimerFires ==
  /\ Len(moveTimers) > 0
  /\ busLog' = << [type |-> "moves.available", moves |-> Head(moveTimers).moves,
                   rawMessage |-> Head(moveTimers).rawMessage] >>
  /\ moveTimers' = Tail(moveTimers)
  /\ lastFrame' = Null
  /\ UNCHANGED <<currentState, lastCall, overHistory, endedCount, svcConnected, svcGameId,
                 afterDisconnect>>
  /\ UNCHANGED <<parseMessage, parsedMoves, turnTimers>>
  /\ UNCHANGED <<gateVars, timerVars, wsVars, busVars>>

\* the frames of a turn hand-over: YOUR_TURN on the personal queue and the
\* state update of the same moment on the game topic
TurnFrames == { [type |-> "YOUR_TURN", success |-> TRUE, data |-> Null] }
TurnUpdateFrames ==
  { [type |-> "GAME_STATE_UPDATE", success |-> TRUE, data |-> Snapshot(d, pl, <<>>, FALSE)] :
      d \in { [die1 |-> 0, die2 |-> 0], [die1 |-> 6, die2 |-> 0] }, pl \in PlayerIds }

\* a YOUR_TURN frame on the personal queue
YourTurn(frame) ==
  /\ Len(turnTimers) < MaxPendingTurns
  /\ Frame("personal", frame)

\* a state update on the game topic
TurnUpdate(frame) == Frame("broadcast", frame)

\* the callback set in the YOUR_TURN case runs after 500 ms
TurnTimerFires ==
  /\ Len(turnTimers) > 0
  /\ busLog' = << [type |-> "turn.changed", isMyTurn |-> Head(turnTimers).isMyTurn] >>
  /\ turnTimers' = Tail(turnTimers)
  /\ lastFrame' = Null
  /\ UNCHANGED <<currentState, lastCall, overHistory, endedCount, svcConnected, svcGameId,
                 afterDisconnect>>
  /\ UNCHANGED <<parseMessage, parsedMoves, moveTimers>>
  /\ UNCHANGED <<gateVars, timerVars, wsVars, busVars>>

NextTurns ==
  \/ \E frame \in TurnFrames : YourTurn(frame)
  \/ \E frame \in TurnUpdateFrames : TurnUpdate(frame)
  \/ TurnTimerFires

NextOptions ==
  \/ \E frame \in OptionFrames : OptionsFrame(frame)
  \/ MoveTimerFires

\* the game-started broadcast, with the snapshot of the new game or without data
StartedFrames ==
  { [type |-> "GAME_STARTED", success |-> ok, data |-> d] :
      ok \in BOOLEAN, d \in { Null } \cup FrameSnapshots }

GameStarted(frame) == Frame("broadcast", frame)

NextFrames ==
  \/ \E channel \in { "personal", "broadcast" } :
       \E frame \in Frames(channel) : Frame(channel, frame)
  \/ StoreDisconnected

(***************************************************************************)
(* Properties of the state store and diff engine                           *)
(***************************************************************************)
EventsOfType(log, t) == SelectSeq(log, LAMBDA e : e.type = t)
TypesOf(log) == [i \in 1..Len(log) |-> log[i].type]

\* ids present in both piece lists whose (row, col) differs
MovedIds(A, B) ==
  { a.id : a \in { x \in { A[i] : i \in 1..Len(A) } :
                     \E j \in 1..Len(B) : B[j].id = x.id /\ B[j].position # x.position } }

IndexOfId(ps, id) == (CHOOSE i \in 1..Len(ps) : ps[i].id = id)

\* C1: for consecutive snapshots (A, B) the pieces.moved event lists exactly the
\* piece ids present in both A and B whose position differs, once each, with the
\* old and the new position; a piece only in B gives no record, and no
\* pieces.moved event is emitted when the list would be empty.
C1_PieceDiffExact ==
  (lastCall # Null /\ lastCall.old # Null) =>
    LET A        == lastCall.old.pieces
        B        == lastCall.new.pieces
        expected == MovedIds(A, B)
        evs      == EventsOfType(busLog, "pieces.moved")
    IN  IF expected = {}
        THEN evs = <<>>
        ELSE /\ Len(evs) = 1
             /\ LET ms == evs[1].movements
                IN  /\ { ms[i].pieceId : i \in 1..Len(ms) } = expected
                    /\ Len(ms) = Cardinality(expected)
                    /\ \A i \in 1..Len(ms) :
                         /\ ms[i].from = A[IndexOfId(A, ms[i].pieceId)].position
                         /\ ms[i].to = B[IndexOfId(B, ms[i].pieceId)].position

\* piece 1 moved, piece 2 appears only in the new snapshot: one record, for piece 1
C1_Witness ==
  /\ lastCall # Null /\ lastCall.old # Null
  /\ Len(lastCall.old.pieces) = 1 /\ lastCall.old.pieces[1].id = 1
  /\ Len(lastCall.new.pieces) = 2
  /\ lastCall.new.pieces[1].position # lastCall.old.pieces[1].position
  /\ Len(EventsOfType(busLog, "pieces.moved")) = 1
  /\ Len(EventsOfType(busLog, "pieces.moved")[1].movements) = 1

RECURSIVE RisingEdges(_)
RisingEdges(h) ==
  IF h = <<>> THEN 0
  ELSE LET n == Len(h)
       IN  RisingEdges(SubSeq(h, 1, n - 1))
             + (IF h[n] /\ (n = 1 \/ ~h[n - 1]) THEN 1 ELSE 0)

\* C2: game.ended is edge-triggered: an update emits it exactly when the previous
\* snapshot was not over (or absent) and the new one is over, so over a sequence
\* of snapshots it is emitted once per not-over -> over transition, and exactly
\* once for [not-over, not-over, over, over, over].
C2_GameOverEdge ==
  /\ endedCount = RisingEdges(overHistory)
  /\ (overHistory = <<FALSE, FALSE, TRUE, TRUE, TRUE>> => endedCount = 1)
  /\ (lastCall # Null /\ lastCall.old # Null /\ lastCall.old.gameOver)
       => EventsOfType(busLog, "game.ended") = <<>>

C2_Witness ==
  /\ overHistory = <<FALSE, FALSE, TRUE, TRUE, TRUE>>
  /\ endedCount = 1

TypeRank(t) ==
  CASE t = "dice.updated"       -> 1
    [] t = "pieces.moved"       -> 2
    [] t = "turn.changed"       -> 3
    [] t = "game.ended"         -> 4
    [] t = "game.state.updated" -> 5
    [] OTHER                    -> 0

\* C3: the events of one updateGameState call are emitted in the order
\* dice.updated, pieces.moved, turn.changed, game.ended, game.state.updated,
\* and game.state.updated is the last one.
C3_EmissionOrder ==
  lastCall # Null =>
    /\ \A i, j \in 1..Len(busLog) :
         i < j => TypeRank(busLog[i].type) < TypeRank(busLog[j].type)
    /\ Len(busLog) > 0
    /\ busLog[Len(busLog)].type = "game.state.updated"

\* one update that emits all five kinds
C3_Witness ==
  /\ lastCall # Null
  /\ TypesOf(busLog) = <<"dice.updated", "pieces.moved", "turn.changed",
                         "game.ended", "game.state.updated">>

\* C4: updating with a snapshot equal to the one held emits no dice.updated,
\* pieces.moved, turn.changed or game.ended, and exactly one game.state.updated.
C4_SelfDiffQuiet ==
  (lastCall # Null /\ lastCall.old = lastCall.new) =>
    TypesOf(busLog) = <<"game.state.updated">>

C4_Witness ==
  /\ lastCall # Null /\ lastCall.old = lastCall.new
  /\ lastCall.new.dice.die1 # lastCall.new.dice.die2
  /\ Len(lastCall.new.pieces) = 2
  /\ lastCall.new.gameOver

\* C5: after updateGameState(S) the store holds exactly S, whatever it held
\* before, and the game.state.updated event of the call carries the previous
\* snapshot as oldState and S as newState.
C5_LastWriteWins ==
  lastCall # Null =>
    /\ currentState = lastCall.new
    /\ LET e == busLog[Len(busLog)]
       IN  /\ e.type = "game.state.updated"
           /\ e.oldState = lastCall.old
           /\ e.newState = lastCall.new

\* the store held pieces and the new snapshot has none
C5_Witness ==
  /\ lastCall # Null /\ lastCall.old # Null
  /\ lastCall.old.pieces # <<>> /\ lastCall.new.pieces = <<>>
  /\ currentState = lastCall.new

\* C26: on an update that finds no snapshot in the store, dice.updated and
\* turn.changed are each emitted exactly once whatever the values of the new
\* snapshot, and no pieces.moved is emitted
C26_FirstUpdate ==
  (lastCall # Null /\ lastCall.old = Null) =>
    /\ CountType(busLog, "dice.updated") = 1
    /\ CountType(busLog, "turn.changed") = 1
    /\ CountType(busLog, "pieces.moved") = 0

\* the first snapshot after a disconnect, with both dice at zero and a piece on
\* the board
C26_Witness ==
  /\ lastCall # Null /\ lastCall.old = Null
  /\ afterDisconnect = "first"
  /\ lastCall.new.dice = [die1 |-> 0, die2 |-> 0]
  /\ Len(lastCall.new.pieces) > 0
  /\ currentState = lastCall.new

\* C18: the snapshot is discarded on disconnect: after the disconnected event
\* the store holds no snapshot and no game id, and the first update after it is
\* diffed against an absent old snapshot, so dice.updated and turn.changed are
\* emitted and pieces.moved is not.
C18_DiscardOnDisconnect ==
  /\ busLog = << [type |-> "game.connection.lost"] >>
       => (currentState = Null /\ svcGameId = Null /\ ~svcConnected)
  /\ afterDisconnect = "first"
       => /\ lastCall.old = Null
          /\ Len(EventsOfType(busLog, "dice.updated")) = 1
          /\ EventsOfType(busLog, "dice.updated")[1].old = Null
          /\ Len(EventsOfType(busLog, "turn.changed")) = 1
          /\ EventsOfType(busLog, "pieces.moved") = <<>>
          /\ busLog[Len(busLog)].oldState = Null

\* a game was entered and a snapshot held, the connection dropped, and the next
\* snapshot, which has a piece, arrived
C18_Witness ==
  /\ afterDisconnect = "first"
  /\ svcGameId = Null
  /\ lastCall.new.pieces # <<>>
  /\ TypesOf(busLog) = <<"dice.updated", "turn.changed", "game.state.updated">>

\* C19: a frame whose type tag is not one of the known types of its channel is
\* forwarded unchanged as exactly one generic event, and handling it raises no
\* error.
C19_UnknownForwarded ==
  (lastFrame # Null /\ lastFrame.frame.type = "SERVER_NOTICE")
    => /\ ~lastFrame.threw
       /\ Len(SelectSeq(busLog, LAMBDA e :
                /\ e.type \in { "game.response", "game.generic.event" }
                /\ e.frame = lastFrame.frame)) = 1

\* C33: whenever a game.state.updated event is emitted, the newState it
\* carries is the snapshot the store holds after that handler run, whatever
\* frame caused the event (the game-started broadcast included)
C33_CanonicalState ==
  \A i \in 1..Len(busLog) :
    busLog[i].type = "game.state.updated" => busLog[i].newState = currentState

\* C36: turn notices are delivered in frame arrival order. When a state-update
\* frame changes currentPlayerId and its turn.changed is delivered, the
\* turn.changed of every YOUR_TURN frame received before it has been delivered
C36_TurnNoticeOrder ==
  [][ ( /\ lastFrame' # Null
        /\ lastFrame'.frame.type = "GAME_STATE_UPDATE"
        /\ currentState # Null /\ currentState' # Null
        /\ currentState.currentPlayerId # currentState'.currentPlayerId
        /\ \E i \in 1..Len(busLog') : busLog'[i].type = "turn.changed" ) =>
          turnTimers = <<>> ]_vars

(***************************************************************************)
(* StateCoordinator counter and MoveManager gate                           *)
(***************************************************************************)
\* the arrays parseMoveOptions can hand over; n tells the array objects apart
MoveLists == { <<>>, <<1, 2>> }
Batch(n, moves) == [n |-> n, moves |-> moves]

\* gateTrace keeps the handler runs since construction while they are at most
\* MaxTrace, and a single marker after that
TraceOverflow == <<"more">>
Record(op) ==
  IF gateTrace # TraceOverflow /\ Len(gateTrace) < MaxTrace
  THEN Append(gateTrace, op)
  ELSE TraceOverflow

\* variant: a batch that arrives during an animation is kept only if none is waiting
QueueWhileAnimating_FirstWins(pending, batch) ==
  IF pending = Null THEN batch ELSE pending

\* showAvailableMoves, animating branch: the slot is overwritten
QueueWhileAnimating(pending, batch) == batch

\* variant: a batch is also held back while a panel is on screen
GateClosed_OrPanel(st) == st.isAnimating \/ st.movePanel

\* showAvailableMoves: the test that suppresses the batch
GateClosed(st) == st.isAnimating

\* showAvailableMoves(batch) as a state change:
\* [isAnimating, pendingMoves, currentMoves, movePanel, hideTween, isProcessingMove, shown]
ShowAvailableMoves(st, batch) ==
  IF GateClosed(st)
  THEN [st EXCEPT !.pendingMoves = QueueWhileAnimating(st.pendingMoves, batch)]
  ELSE [st EXCEPT !.isProcessingMove = FALSE,
                  !.currentMoves = batch.moves,
                  !.movePanel = TRUE,
                  !.hideTween = FALSE,
                  !.shown = Append(st.shown, batch)]

\* variant: the slot keeps the batch after it was shown
ClearPending_Keep(pending) == pending

\* onAnimationComplete: this.pendingMoves = null
ClearPending(pending) == Null

\* onAnimationComplete()
OnAnimationComplete(st) ==
  LET st1 == IF st.pendingMoves # Null
             THEN LET shown == ShowAvailableMoves(st, st.pendingMoves)
                  IN  [shown EXCEPT !.pendingMoves = ClearPending(shown.pendingMoves)]
             ELSE st
  IN  [st1 EXCEPT !.isProcessingMove = FALSE]

\* setAnimationState(animating)
SetAnimationState(st, animating) ==
  LET st1 == [st EXCEPT !.isAnimating = animating]
  IN  IF ~animating THEN OnAnimationComplete(st1) ELSE st1

GateState ==
  [ isAnimating      |-> isAnimating,
    pendingMoves     |-> pendingMoves,
    currentMoves     |-> currentMoves,
    movePanel        |-> movePanel,
    hideTween        |-> hideTween,
    isProcessingMove |-> isProcessingMove,
    shown            |-> <<>> ]

\* write a MoveManager state back and log what was shown
Commit(st) ==
  /\ isAnimating' = st.isAnimating
  /\ pendingMoves' = st.pendingMoves
  /\ currentMoves' = st.currentMoves
  /\ movePanel' = st.movePanel
  /\ hideTween' = st.hideTween
  /\ isProcessingMove' = st.isProcessingMove
  /\ delivered' = delivered \o st.shown

\* piece.animation.start listener: if (this.activeAnimations === 1) emit
BroadcastOnStart(count) == count = 1

\* variant: every completion is broadcast
BroadcastOnComplete_Always(count) == TRUE

\* piece.animation.complete listener: if (this.activeAnimations === 0) emit
BroadcastOnComplete(count) == count = 0

\* PiecesContainer.movePieceToPosition: piece.animation.start, then the timeline
\* (none when the path is empty); StateCoordinator counts and broadcasts 0 -> 1
AnimationStart(hasPath) ==
  /\ activeAnimations < MaxAnimations
  /\ activeAnimations' = activeAnimations + 1
  /\ timelines' = IF hasPath THEN timelines + 1 ELSE timelines
  /\ Commit(IF BroadcastOnStart(activeAnimations + 1)
            THEN SetAnimationState(GateState, TRUE)
            ELSE GateState)
  /\ suppressed' = suppressed
  /\ nextBatch' = nextBatch
  /\ gateLog' = [op |-> "start", broadcast |-> BroadcastOnStart(activeAnimations + 1)]
  /\ gateTrace' = Record("start")
  /\ UNCHANGED <<storeVars, timerVars, wsVars, optionVars, busVars>>

\* timeline onComplete: piece.animation.complete; StateCoordinator counts and
\* broadcasts 1 -> 0, MoveManager releases the waiting batch
AnimationComplete ==
  /\ timelines > 0
  /\ timelines' = timelines - 1
  /\ activeAnimations' = activeAnimations - 1
  /\ Commit(IF BroadcastOnComplete(activeAnimations - 1)
            THEN SetAnimationState(GateState, FALSE)
            ELSE GateState)
  /\ suppressed' = IF BroadcastOnComplete(activeAnimations - 1) THEN <<>> ELSE suppressed
  /\ nextBatch' = nextBatch
  /\ gateLog' = [op |-> "complete",
                  broadcast |-> BroadcastOnComplete(activeAnimations - 1)]
  /\ gateTrace' = Record("complete")
  /\ UNCHANGED <<storeVars, timerVars, wsVars, optionVars, busVars>>

\* moves:available listener of GameBoardContainer
MovesAvailable(moves) ==
  /\ nextBatch <= MaxBatches
  /\ LET batch == Batch(nextBatch, moves)
         st0   == [GateState EXCEPT !.isProcessingMove = FALSE]
     IN  /\ Commit(ShowAvailableMoves(st0, batch))
         /\ suppressed' = IF isAnimating THEN Append(suppressed, batch) ELSE suppressed
         /\ gateLog' = [op |-> "batch", batch |-> batch, wasAnimating |-> isAnimating]
  /\ nextBatch' = nextBatch + 1
  /\ gateTrace' = Record("batch")
  /\ UNCHANGED <<activeAnimations, timelines>>
  /\ UNCHANGED <<storeVars, timerVars, wsVars, optionVars, busVars>>

\* hideMoves()
HideMoves(st) ==
  [st EXCEPT !.hideTween = st.movePanel, !.isProcessingMove = FALSE]

\* the user clicks an option of the panel: selectMove(move)
SelectMove ==
  /\ movePanel /\ currentMoves # <<>>
  /\ IF isProcessingMove
     THEN Commit(GateState)
     ELSE Commit([HideMoves([GateState EXCEPT !.isProcessingMove = TRUE])
                    EXCEPT !.isAnimating = TRUE])
  /\ gateLog' = [op |-> "select", ignored |-> isProcessingMove]
  /\ gateTrace' = Record("select")
  /\ UNCHANGED <<activeAnimations, timelines, suppressed, nextBatch>>
  /\ UNCHANGED <<storeVars, timerVars, wsVars, optionVars, busVars>>

\* turn:changed (not my turn) and game:ended listeners of GameBoardContainer
HidePanel ==
  /\ Commit(HideMoves(GateState))
  /\ gateLog' = [op |-> "hide"]
  /\ gateTrace' = Record("hide")
  /\ UNCHANGED <<activeAnimations, timelines, suppressed, nextBatch>>
  /\ UNCHANGED <<storeVars, timerVars, wsVars, optionVars, busVars>>

\* the fade-out tween ends: clearMovePanel()
HideTweenComplete ==
  /\ hideTween /\ movePanel
  /\ Commit([GateState EXCEPT !.movePanel = FALSE, !.hideTween = FALSE])
  /\ gateLog' = [op |-> "tween"]
  /\ gateTrace' = Record("tween")
  /\ UNCHANGED <<activeAnimations, timelines, suppressed, nextBatch>>
  /\ UNCHANGED <<storeVars, timerVars, wsVars, optionVars, busVars>>

InitGate ==
  /\ activeAnimations = 0 /\ timelines = 0 /\ isAnimating = FALSE
  /\ pendingMoves = Null /\ currentMoves = <<>> /\ movePanel = FALSE
  /\ isProcessingMove = FALSE /\ delivered = <<>> /\ suppressed = <<>>
  /\ nextBatch = 1 /\ hideTween = FALSE /\ gateLog = [op |-> "init"]
  /\ gateTrace = <<>>

NextGate ==
  \/ \E hasPath \in BOOLEAN : AnimationStart(hasPath)
  \/ AnimationComplete
  \/ \E moves \in MoveLists : MovesAvailable(moves)
  \/ SelectMove
  \/ HidePanel
  \/ HideTweenComplete

(***************************************************************************)
(* Properties of the animation gate                                        *)
(***************************************************************************)
\* C6: latest-wins. For [animation-start, batch-1, batch-2, animation-complete]
\* exactly one batch is delivered and it is batch-2. In general nothing is
\* delivered while isAnimating is true, except by the handler run that takes the
\* animation counter from 1 to 0: it delivers the most recent batch that arrived
\* while isAnimating was true, if there is one, and leaves pendingMoves null. No
\* batch is delivered twice.
C6_LatestWins ==
  /\ [](gateTrace = <<"start", "batch", "batch", "complete">> =>
          /\ Len(delivered) = 1
          /\ delivered[1].n = 2
          /\ pendingMoves = Null)
  /\ [](\A i, j \in 1..Len(delivered) : i # j => delivered[i].n # delivered[j].n)
  /\ [][ isAnimating =>
           IF activeAnimations = 1 /\ activeAnimations' = 0
           THEN /\ delivered' = IF suppressed = <<>> THEN delivered
                                ELSE Append(delivered, suppressed[Len(suppressed)])
                /\ pendingMoves' = Null
           ELSE delivered' = delivered ]_vars

C6_Witness ==
  /\ gateTrace = <<"start", "batch", "batch", "complete">>
  /\ Len(delivered) = 1
  /\ delivered[1].n = 2
  /\ pendingMoves = Null

\* C7: a batch that arrives while isAnimating is false is delivered by the same
\* handler run: it is the last batch delivered, currentMoves is that batch and
\* pendingMoves is null.
C7_IdleImmediate ==
  /\ (gateLog.op = "batch" /\ ~gateLog.wasAnimating) =>
       /\ currentMoves = gateLog.batch.moves
       /\ movePanel
       /\ pendingMoves = Null
       /\ delivered # <<>>
       /\ delivered[Len(delivered)] = gateLog.batch
  /\ gateTrace = <<"batch">> => delivered = <<gateLog.batch>>

\* a second batch arrives while the panel of the first is still on screen
C7_Witness ==
  /\ gateLog.op = "batch" /\ ~gateLog.wasAnimating
  /\ gateLog.batch.n = 2
  /\ Len(delivered) = 2
  /\ currentMoves = gateLog.batch.moves
  /\ pendingMoves = Null

\* C31: no batch is suppressed forever. Whenever batch n waits in pendingMoves,
\* eventually the gate is idle again and batch n or a later batch has been
\* delivered, given that every timeline that was started runs to its end
C31_NoBatchLost ==
  \A n \in 1..MaxBatches :
    (pendingMoves # Null /\ pendingMoves.n = n) ~>
      (~isAnimating /\ \E i \in 1..Len(delivered) : delivered[i].n >= n)

\* C32: between handlers, whenever the gate is idle (isAnimating false)
\* pendingMoves is null: a batch is held back only while isAnimating is true
C32_IdleHoldsNothing ==
  ~isAnimating => pendingMoves = Null

\* a batch was held back during an animation and released by its completion
C32_Witness ==
  /\ gateTrace = <<"start", "batch", "complete">>
  /\ gateLog.broadcast
  /\ ~isAnimating
  /\ pendingMoves = Null
  /\ Len(delivered) = 1

\* C30: between handlers the gate's isAnimating flag is true exactly when
\* the active-animation counter is greater than 0
C30_FlagIffCounter ==
  isAnimating <=> activeAnimations > 0

\* C27: the active-animation counter is never negative, and the animation state
\* is broadcast only when the counter goes from 0 to 1 (isAnimating true) and
\* when it goes from 1 to 0 (isAnimating false)
C27_CounterAndBroadcast ==
  /\ [](activeAnimations >= 0)
  /\ [][ (gateLog'.op \in { "start", "complete" } /\ gateLog'.broadcast) =>
           \/ activeAnimations = 0 /\ activeAnimations' = 1 /\ isAnimating'
           \/ activeAnimations = 1 /\ activeAnimations' = 0 /\ ~isAnimating' ]_vars

\* two animations ran together and the second completion was broadcast
C27_Witness ==
  /\ gateLog.op = "complete"
  /\ gateLog.broadcast
  /\ activeAnimations = 0
  /\ ~isAnimating
  /\ gateTrace = <<"start", "start", "complete", "complete">>

(***************************************************************************)
(* ConnectionHandler: action timeout and staged recovery                   *)
(***************************************************************************)
\* variant: clearTimeout leaves every timer pending
ClearTimeout_Ignored(ts, handle) == ts

\* the runtime's clearTimeout(handle): a handle that is not pending is ignored
\* variant: the timer set right after the one of the handle goes with it
ClearTimeout_Adjacent(ts, handle) == { t \in ts : t.id # handle /\ t.id # handle + 1 }

\* clearTimeout(handle): a handle that is not pending removes nothing
ClearTimeout(ts, handle) == { t \in ts : t.id # handle }

\* variant: the handle is forgotten but the timer is left running
ClearDiceTimeout_HandleOnly(handle, ts) == [handle |-> 0, timers |-> ts]

\* clearDiceTimeout()
ClearDiceTimeout(handle, ts) ==
  IF handle # 0
  THEN [handle |-> 0, timers |-> ClearTimeout(ts, handle)]
  ELSE [handle |-> handle, timers |-> ts]

\* variant: startDiceTimeout arms without clearing first
ClearBeforeArming_Skip(handle, ts) == [handle |-> handle, timers |-> ts]

\* startDiceTimeout(): this.clearDiceTimeout() before the timer is set
ClearBeforeArming(handle, ts) == ClearDiceTimeout(handle, ts)

DiceTimers(ts) == { t \in ts : t.kind = "dice" }

\* the armings still pending when a clearing call or success signal arrives
PendingArmings(ts, by) ==
  { [arming |-> t.arming, by |-> by] : t \in DiceTimers(ts) }

\* startDiceTimeout(onTimeout)
StartDiceTimeout(hasCallback) ==
  /\ armings < MaxArmings
  /\ LET cleared == ClearBeforeArming(diceTimeout, timers)
         new     == [id |-> nextTimerId, kind |-> "dice", arming |-> nextTimerId,
                     cb |-> hasCallback]
     IN  /\ timers' = cleared.timers \cup {new}
         /\ diceTimeout' = nextTimerId
         /\ cancelled' = cancelled \cup PendingArmings(timers, "rearm")
  /\ lastArmed' = nextTimerId
  /\ armings' = armings + 1
  /\ nextTimerId' = nextTimerId + 1
  /\ UNCHANGED <<connectionTimeout, isOffline, fired, recoveryLog, connLog>>
  /\ UNCHANGED <<storeVars, gateVars, wsVars, optionVars, busVars>>

\* an explicit clearDiceTimeout() call
ClearDiceTimeoutCall ==
  /\ LET cleared == ClearDiceTimeout(diceTimeout, timers)
     IN  /\ timers' = cleared.timers
         /\ diceTimeout' = cleared.handle
         /\ cancelled' = cancelled \cup PendingArmings(timers, "clear")
  /\ UNCHANGED <<connectionTimeout, isOffline, nextTimerId, lastArmed, armings, fired,
                 recoveryLog, connLog>>
  /\ UNCHANGED <<storeVars, gateVars, wsVars, optionVars, busVars>>

\* GameControlsContainer.handleDiceUpdate(data), the dice:updated listener
HandleDiceUpdate(hasNew) ==
  /\ LET cleared == IF hasNew THEN ClearDiceTimeout(diceTimeout, timers)
                    ELSE [handle |-> diceTimeout, timers |-> timers]
     IN  /\ timers' = cleared.timers
         /\ diceTimeout' = cleared.handle
         /\ cancelled' = cancelled \cup (IF hasNew THEN PendingArmings(timers, "dice") ELSE {})
  /\ UNCHANGED <<connectionTimeout, isOffline, nextTimerId, lastArmed, armings, fired,
                 recoveryLog, connLog>>
  /\ UNCHANGED <<storeVars, gateVars, wsVars, optionVars, busVars>>

\* GameService.requestGameState(): sent only when connected and in a game
RequestGameState(isConnected, gameId) ==
  IF ~isConnected \/ gameId = Null
  THEN <<>>
  ELSE << [type |-> "send", destination |-> "/app/game.state"] >>

\* variant: the recovery re-requests the state at once, ahead of the notice
ExpirySteps_RecoverFirst(t) ==
  << [what |-> "rerequest", arming |-> t.arming, cb |-> t.cb] >>
    \o (IF t.cb THEN << [what |-> "notice", arming |-> t.arming] >> ELSE <<>>)

\* what the expiry callback puts out before attemptRecovery() sets its timer
ExpirySteps(t) ==
  IF t.cb THEN << [what |-> "notice", arming |-> t.arming] >> ELSE <<>>

\* the 8000 ms timer expires: onTimeout(), then attemptRecovery()
DiceTimerFires(t) ==
  /\ t \in timers /\ t.kind = "dice"
  /\ fired' = Append(fired, [arming |-> t.arming, lastArmed |-> lastArmed])
  /\ recoveryLog' = recoveryLog \o ExpirySteps(t)
  /\ timers' = (IF connectionTimeout # 0
                THEN ClearTimeout(timers \ {t}, connectionTimeout)
                ELSE timers \ {t})
               \cup { [id |-> nextTimerId, kind |-> "stage1", arming |-> t.arming,
                       cb |-> t.cb] }
  /\ connectionTimeout' = nextTimerId
  /\ nextTimerId' = nextTimerId + 1
  /\ UNCHANGED <<diceTimeout, isOffline, lastArmed, armings, cancelled, connLog>>
  /\ UNCHANGED <<storeVars, gateVars, wsVars, optionVars, busVars>>

\* first stage of attemptRecovery, after 2000 ms: re-request the state
Stage1Fires(t) ==
  /\ t \in timers /\ t.kind = "stage1"
  /\ recoveryLog' = Append(recoveryLog,
       [what |-> "rerequest", arming |-> t.arming, cb |-> t.cb])
  /\ timers' = (timers \ {t})
               \cup { [id |-> nextTimerId, kind |-> "stage2", arming |-> t.arming,
                       cb |-> t.cb] }
  /\ connectionTimeout' = nextTimerId
  /\ nextTimerId' = nextTimerId + 1
  /\ UNCHANGED <<diceTimeout, isOffline, lastArmed, armings, cancelled, fired, connLog>>
  /\ UNCHANGED <<storeVars, gateVars, wsVars, optionVars, busVars>>

\* variant: only the offline flag is looked at
IssuesPersist_OfflineOnly(offline, isConnected) == offline

\* the test of the second stage
IssuesPersist(offline, isConnected) == offline \/ ~isConnected

\* second stage, after a further 5000 ms: the advisory check
Stage2Fires(t) ==
  /\ t \in timers /\ t.kind = "stage2"
  /\ recoveryLog' = Append(recoveryLog,
       [what |-> IF IssuesPersist(isOffline, svcConnected) THEN "advisory" ELSE "quiet",
        arming |-> t.arming, offline |-> isOffline, connected |-> svcConnected])
  /\ timers' = timers \ {t}
  /\ UNCHANGED <<diceTimeout, connectionTimeout, isOffline, nextTimerId, lastArmed,
                 armings, cancelled, fired, connLog>>
  /\ UNCHANGED <<storeVars, gateVars, wsVars, optionVars, busVars>>

ConnectionStatusEvent(isUp) == [type |-> "ui:connectionStatus", connected |-> isUp]

\* handleConnectionLost()
HandleConnectionLost == << ConnectionStatusEvent(FALSE) >>

\* what a run of the websocket.disconnected chain puts out
ConnectionLostRun ==
  [op |-> "lost", wasOffline |-> isOffline, threw |-> FALSE, out |-> HandleConnectionLost]

\* websocket.disconnected while the game scene is mounted: the GameService
\* listener, then game.connection.lost reaches handleConnectionLost()
ConnectionLost ==
  /\ GameServiceDisconnected
  /\ isOffline' = TRUE
  /\ UNCHANGED <<diceTimeout, connectionTimeout, timers, nextTimerId, lastArmed, armings,
                 cancelled, fired, recoveryLog>>
  /\ UNCHANGED <<gateVars, wsVars, optionVars, busVars>>

\* handleConnectionRestored(): nothing unless offline; else the state re-request
\* (GameService.isConnected was set by the listener that ran just before) and
\* the status notice
HandleConnectionRestored(offline, gameId) ==
  IF ~offline THEN <<>>
  ELSE RequestGameState(TRUE, gameId) \o << ConnectionStatusEvent(TRUE) >>

\* what a run of the websocket.connected chain puts out
ConnectionRestoredRun ==
  [op |-> "restored", wasOffline |-> isOffline, threw |-> FALSE,
   out |-> HandleConnectionRestored(isOffline, svcGameId)]

\* websocket.connected: GameService sets isConnected and emits
\* game.connection.established, which reaches handleConnectionRestored();
\* the transport's own flag is set before websocket.connected is emitted
ConnectionRestored ==
  /\ svcConnected' = TRUE
  /\ busLog' = << [type |-> "game.connection.established"] >>
  /\ isOffline' = FALSE
  /\ UNCHANGED <<currentState, lastCall, overHistory, endedCount, svcGameId,
                 afterDisconnect, lastFrame>>
  /\ UNCHANGED <<diceTimeout, connectionTimeout, timers, nextTimerId, lastArmed, armings,
                 cancelled, fired, recoveryLog>>
  /\ UNCHANGED <<gateVars, wsVars, optionVars, busVars>>

\* what handleError(error) puts out for a string
HandleErrorRun(isConnectionError) ==
  [op |-> "error", wasOffline |-> isOffline, threw |-> FALSE,
   out |-> IF isConnectionError THEN HandleConnectionLost
           ELSE << [type |-> "ui:message", text |-> "error"] >>]

\* error:game listener: handleError(error), error a string
HandleError(isConnectionError) ==
  /\ LET cleared == ClearDiceTimeout(diceTimeout, timers)
     IN  /\ timers' = cleared.timers
         /\ diceTimeout' = cleared.handle
         /\ cancelled' = cancelled \cup PendingArmings(timers, "error")
  /\ isOffline' = (isOffline \/ isConnectionError)
  /\ UNCHANGED <<connectionTimeout, nextTimerId, lastArmed, armings, fired, recoveryLog>>
  /\ UNCHANGED <<storeVars, gateVars, wsVars, optionVars, busVars>>

\* texts an INVALID_CHOICE frame can carry (Null: no message field)
ChoiceTexts == { Null, Text(<<"N","o","t"," ","y","o","u","r"," ","t","u","r","n">>) }

\* WebSocketService.handlePersonalResponse, case INVALID_CHOICE: the game.error payload
InvalidChoiceError(message) ==
  [ message |-> IF message = Null THEN Text(<<"I","n","v","a","l","i","d">>) ELSE message,
    type    |-> "INVALID_CHOICE" ]

\* StateCoordinator, game.error listener: { error: data.error }
ForwardedError(data) == IF "error" \in DOMAIN data THEN data.error ELSE Null

\* what the INVALID_CHOICE chain puts out: handleError(undefined) throws at
\* error.includes before any notice is emitted
InvalidChoiceRun(message) ==
  LET data  == InvalidChoiceError(message)
      error == ForwardedError(data)
  IN  [op |-> "invalid", wasOffline |-> isOffline,
       threw |-> (error = Null), text |-> data.message,
       out |-> IF error = Null THEN <<>>
               ELSE << [type |-> "ui:message", text |-> error] >>]

\* an INVALID_CHOICE frame on the personal queue: game.error, error:game, then
\* handleError(error) clears the timer and calls error.includes, which throws on
\* undefined; the EventBus catches what a listener throws
InvalidChoice(message) ==
  /\ LET cleared == ClearDiceTimeout(diceTimeout, timers)
     IN  /\ timers' = cleared.timers
         /\ diceTimeout' = cleared.handle
         /\ cancelled' = cancelled \cup PendingArmings(timers, "error")
  /\ busLog' = << [type |-> "game.error", kind |-> "INVALID_CHOICE"] >>
  /\ UNCHANGED <<currentState, lastCall, overHistory, endedCount, svcConnected, svcGameId,
                 afterDisconnect, lastFrame>>
  /\ UNCHANGED <<isOffline, connectionTimeout, nextTimerId, lastArmed, armings, fired,
                 recoveryLog>>
  /\ UNCHANGED <<gateVars, wsVars, optionVars, busVars>>

InitTimer ==
  /\ diceTimeout = 0 /\ connectionTimeout = 0 /\ isOffline = FALSE
  /\ timers = {} /\ nextTimerId = 1 /\ lastArmed = 0 /\ armings = 0
  /\ cancelled = {} /\ fired = <<>> /\ recoveryLog = <<>>
  /\ connLog = [op |-> "init"]

NextTimer ==
  \/ \E hasCallback \in BOOLEAN : StartDiceTimeout(hasCallback)
  \/ ClearDiceTimeoutCall
  \/ \E hasNew \in BOOLEAN : HandleDiceUpdate(hasNew)
  \/ \E t \in timers : DiceTimerFires(t)
  \/ \E t \in timers : Stage1Fires(t)
  \/ \E t \in timers : Stage2Fires(t)
  \/ ConnectionLost /\ UNCHANGED connLog
  \/ ConnectionRestored /\ UNCHANGED connLog
  \/ \E isConnectionError \in BOOLEAN : HandleError(isConnectionError) /\ UNCHANGED connLog

\* the connection and error handlers with what each run put out, next to the
\* calls that arm and clear the action timer
NextConnection ==
  \/ ConnectionLost /\ connLog' = ConnectionLostRun
  \/ ConnectionRestored /\ connLog' = ConnectionRestoredRun
  \/ \E isConnectionError \in BOOLEAN :
       HandleError(isConnectionError) /\ connLog' = HandleErrorRun(isConnectionError)
  \/ \E message \in ChoiceTexts :
       InvalidChoice(message) /\ connLog' = InvalidChoiceRun(message)
  \/ \E gameId \in GameIds : GameEntered(gameId)
  \/ \E hasCallback \in BOOLEAN : StartDiceTimeout(hasCallback)

(***************************************************************************)
(* Properties of the action timeout                                        *)
(***************************************************************************)
\* C9: an arming that is cleared before it expires, by a dice:updated event that
\* carries new dice or by clearDiceTimeout(), never expires: its timer is gone
\* and it causes no timeout notice, no state re-request and no advisory.
C9_CancelledNeverFires ==
  \A c \in { x \in cancelled : x.by # "rearm" } :
    /\ \A t \in timers : t.arming # c.arming
    /\ \A i \in 1..Len(fired) : fired[i].arming # c.arming
    /\ \A i \in 1..Len(recoveryLog) : recoveryLog[i].arming # c.arming

\* one arming cancelled by a dice update, a later one expired and ran its recovery
C9_Witness ==
  /\ \E c \in cancelled : c.by = "dice" /\ c.arming = 1
  /\ \E c \in cancelled : c.by = "clear"
  /\ Len(recoveryLog) >= 3

\* C10: at most one action timer is pending at any time, it belongs to the most
\* recent startDiceTimeout, and a timer that expires is the one armed last.
C10_SingleFlight ==
  /\ Cardinality(DiceTimers(timers)) <= 1
  /\ \A t \in DiceTimers(timers) : t.id = lastArmed /\ t.id = diceTimeout
  /\ \A i \in 1..Len(fired) : fired[i].arming = fired[i].lastArmed

\* armed, armed again before expiry, and the second arming expired
C10_Witness ==
  /\ \E c \in cancelled : c.by = "rearm" /\ c.arming = 1
  /\ Len(fired) = 1
  /\ fired[1].arming = lastArmed

RecoveryTimers(ts) == { t \in ts : t.kind \in { "stage1", "stage2" } }

\* C37: at most one recovery timer is pending at any time and it is the one
\* connectionTimeout names; when attemptRecovery starts again, the pending stage
\* of the earlier sequence is cancelled, and a stage that runs always belongs
\* to the sequence started last
C37_SingleRecovery ==
  /\ [](/\ Cardinality(RecoveryTimers(timers)) <= 1
        /\ \A t \in RecoveryTimers(timers) : t.id = connectionTimeout)
  /\ [][ Len(fired') = Len(fired) + 1 =>
           /\ RecoveryTimers(timers) \cap timers' = {}
           /\ \A t \in RecoveryTimers(timers') :
                 t.kind = "stage1" /\ t.arming = fired'[Len(fired')].arming ]_vars
  /\ [][ (fired' = fired /\ Len(recoveryLog') = Len(recoveryLog) + 1) =>
           recoveryLog'[Len(recoveryLog')].arming = fired[Len(fired)].arming ]_vars

\* the action timer expired twice; the first recovery sequence was cancelled
\* before its first stage ran, the second ran both stages
C37_Witness ==
  /\ Len(fired) = 2
  /\ \A i \in 1..Len(recoveryLog) :
        recoveryLog[i].arming = fired[1].arming => recoveryLog[i].what = "notice"
  /\ \E i \in 1..Len(recoveryLog) :
        recoveryLog[i].arming = fired[2].arming /\ recoveryLog[i].what = "rerequest"
  /\ \E i \in 1..Len(recoveryLog) :
        /\ recoveryLog[i].arming = fired[2].arming
        /\ recoveryLog[i].what \in { "advisory", "quiet" }
  /\ RecoveryTimers(timers) = {}

StepRank(what) ==
  CASE what = "notice"    -> 1
    [] what = "rerequest" -> 2
    [] OTHER              -> 3

\* C28: clearDiceTimeout() called when no timer is armed, when the timer was
\* already cleared, or after the timer fired changes no pending timer, emits
\* nothing and starts no recovery step; calling it twice leaves what calling it
\* once leaves
C28_ClearIdempotent ==
  /\ [](LET once == ClearDiceTimeout(diceTimeout, timers)
        IN  ClearDiceTimeout(once.handle, once.timers) = once)
  /\ [][ ( /\ ClearDiceTimeoutCall
           /\ ~\E t \in timers : t.kind = "dice" /\ t.id = diceTimeout ) =>
             /\ timers' = timers
             /\ diceTimeout' = 0
             /\ fired' = fired
             /\ recoveryLog' = recoveryLog
             /\ connLog' = connLog
             /\ connectionTimeout' = connectionTimeout
             /\ nextTimerId' = nextTimerId ]_vars

\* the handle of a timer that fired was cleared while the first recovery stage
\* is pending; no arming was ever cleared before it expired
C28_Witness ==
  /\ diceTimeout = 0
  /\ Len(fired) = 1
  /\ fired[1].arming = lastArmed
  /\ cancelled = {}
  /\ ~isOffline
  /\ \E t \in timers : t.kind = "stage1"

\* C11: the recovery steps of one expiry happen in the order timeout notice,
\* state re-request, advisory check: the re-request never precedes the notice of
\* its expiry and the advisory test never precedes the re-request.
C11_RecoveryOrder ==
  /\ \A i, j \in 1..Len(recoveryLog) :
       (i < j /\ recoveryLog[i].arming = recoveryLog[j].arming)
         => StepRank(recoveryLog[i].what) < StepRank(recoveryLog[j].what)
  /\ \A j \in 1..Len(recoveryLog) :
       (recoveryLog[j].what = "rerequest" /\ recoveryLog[j].cb)
         => \E i \in 1..(j - 1) : /\ recoveryLog[i].what = "notice"
                                  /\ recoveryLog[i].arming = recoveryLog[j].arming
  /\ \A j \in 1..Len(recoveryLog) :
       StepRank(recoveryLog[j].what) = 3
         => \E i \in 1..(j - 1) : /\ recoveryLog[i].what = "rerequest"
                                  /\ recoveryLog[i].arming = recoveryLog[j].arming

\* one expiry ran all three steps and the advisory was emitted
C11_Witness ==
  /\ Len(recoveryLog) >= 3
  /\ recoveryLog[1].what = "notice"
  /\ recoveryLog[2].what = "rerequest"
  /\ recoveryLog[3].what = "advisory"
  /\ recoveryLog[1].arming = recoveryLog[3].arming

\* C12 as stated: at the second stage the advisory is emitted if and only if
\* isOffline is set at that moment.
C12_AdvisoryIffOffline ==
  \A i \in 1..Len(recoveryLog) :
    StepRank(recoveryLog[i].what) = 3
      => ((recoveryLog[i].what = "advisory") <=> recoveryLog[i].offline)

\* C12 amended: at the second stage the advisory is emitted if and only if
\* isOffline is set or GameService reports that it is not connected.
C12_AdvisoryIffIssues ==
  \A i \in 1..Len(recoveryLog) :
    StepRank(recoveryLog[i].what) = 3
      => ((recoveryLog[i].what = "advisory")
            <=> (recoveryLog[i].offline \/ ~recoveryLog[i].connected))

\* an advisory emitted with isOffline false, and a later check that stayed quiet
C12_Witness ==
  /\ \E i \in 1..Len(recoveryLog) :
       /\ recoveryLog[i].what = "advisory"
       /\ ~recoveryLog[i].offline /\ ~recoveryLog[i].connected
  /\ \E i \in 1..Len(recoveryLog) : recoveryLog[i].what = "quiet"

\* C13: when connection-restored arrives while isOffline is true, isOffline
\* becomes false and a request-state action is sent in the same handler run.
C13_RestoredRequests ==
  (connLog.op = "restored" /\ connLog.wasOffline)
    => /\ ~isOffline
       /\ \E i \in 1..Len(connLog.out) : connLog.out[i].type = "send"

\* C20: after an INVALID_CHOICE frame is processed a ui:message notice carrying
\* the server's text has been emitted, and the offline flag is unchanged.
C20_InvalidChoiceNotice ==
  connLog.op = "invalid"
    => /\ \E i \in 1..Len(connLog.out) :
            /\ connLog.out[i].type = "ui:message"
            /\ connLog.out[i].text = connLog.text
       /\ ~connLog.threw
       /\ isOffline = connLog.wasOffline

(***************************************************************************)
(* WebSocketService: transport and protocol router                         *)
(***************************************************************************)
\* texts of creation acks, as character sequences
MsgCreatedABCD == <<"G","a","m","e"," ","A","B","C","D"," ","c","r","e","a","t","e","d">>
MsgCreatedX1   == <<"N","e","w",":"," ","G","a","m","e"," ","X","_","1"," ","c","r","e","a","t","e","d","!">>
MsgNoId        == <<"G","a","m","e"," "," ","c","r","e","a","t","e","d">>
MsgDashed      == <<"G","a","m","e"," ","A","-","B"," ","c","r","e","a","t","e","d">>
MsgOther       == <<"W","e","l","c","o","m","e">>
AckMessages    == { MsgCreatedABCD, MsgCreatedX1, MsgNoId, MsgDashed, MsgOther }
JoinableIds    == { Text(<<"A","B","C","D">>), Text(<<"Z","9">>) }

\* \w of the pattern
WordChars ==
  { "A","B","C","D","E","F","G","H","I","J","K","L","M","N","O","P","Q","R","S","T",
    "U","V","W","X","Y","Z","a","b","c","d","e","f","g","h","i","j","k","l","m","n",
    "o","p","q","r","s","t","u","v","w","x","y","z","0","1","2","3","4","5","6","7",
    "8","9","_" }

PatternHead == <<"G","a","m","e"," ">>
PatternTail == <<" ","c","r","e","a","t","e","d">>

\* length of the longest run of word characters of m that starts at i
WordRun(m, i) ==
  IF i > Len(m) \/ m[i] \notin WordChars THEN 0
  ELSE (CHOOSE j \in i..Len(m) :
          /\ \A k \in i..j : m[k] \in WordChars
          /\ (j = Len(m) \/ m[j + 1] \notin WordChars)) - i + 1

\* /Game (\w+) created/ matches at position i; the group is greedy and the text
\* after it starts with a blank, so only the longest run can match
MatchesAt(m, i) ==
  /\ HasAt(m, i, PatternHead)
  /\ WordRun(m, i + Len(PatternHead)) >= 1
  /\ HasAt(m, i + Len(PatternHead) + WordRun(m, i + Len(PatternHead)), PatternTail)

\* extractGameId(message): group 1 of the leftmost match, or null
ExtractGameId(m) ==
  IF \E i \in 1..Len(m) : MatchesAt(m, i)
  THEN LET i == CHOOSE i \in 1..Len(m) :
                  MatchesAt(m, i) /\ \A j \in 1..(i - 1) : ~MatchesAt(m, j)
           a == i + Len(PatternHead)
       IN  Text(SubSeq(m, a, a + WordRun(m, a) - 1))
  ELSE Null

PersonalKey == [queue |-> "personal"]
GameKey(gameId) == [game |-> gameId]

\* Map.prototype.set on this.subscriptions (a set of [key, sub] with unique keys)
MapSet(map, key, sub) ==
  { e \in map : e.key # key } \cup { [key |-> key, sub |-> sub] }

\* variant: the handle is stored but nothing is subscribed on the client
SubscribeToGameEvents_MapOnly(gameId) ==
  /\ stompSubs' = stompSubs
  /\ subscriptions' = MapSet(subscriptions, GameKey(gameId), nextSubId)
  /\ nextSubId' = nextSubId + 1

\* subscribeToGameEvents(gameId): subscribe on the client, store the handle
SubscribeToGameEvents(gameId) ==
  /\ stompSubs' = stompSubs \cup { [id |-> nextSubId, topic |-> GameKey(gameId)] }
  /\ subscriptions' = MapSet(subscriptions, GameKey(gameId), nextSubId)
  /\ nextSubId' = nextSubId + 1

PersonalQueueOpen == \E sub \in stompSubs : sub.topic = PersonalKey

\* the connection status the two flags stand for
Status ==
  IF connected THEN "Connected"
  ELSE IF connecting THEN "Connecting"
  ELSE "Disconnected"

\* variant: connect() without the guard on connected and connecting
Connect_Always ==
  /\ connecting' = TRUE
  /\ clientActive' = TRUE
  /\ wsLog' = << [type |-> "connect.activate"] >>
  /\ wsCall' = [op |-> "connect"]
  /\ UNCHANGED <<connected, wsGameId, subscriptions, stompSubs, nextSubId, extracted>>
  /\ UNCHANGED <<storeVars, gateVars, timerVars, optionVars, busVars>>

\* connect()
Connect ==
  /\ IF connected \/ connecting
     THEN /\ UNCHANGED <<connecting, clientActive>>
          /\ wsLog' = << [type |-> "connect.noop"] >>
     ELSE /\ connecting' = TRUE
          /\ clientActive' = TRUE
          /\ wsLog' = << [type |-> "connect.activate"] >>
  /\ wsCall' = [op |-> "connect"]
  /\ UNCHANGED <<connected, wsGameId, subscriptions, stompSubs, nextSubId, extracted>>
  /\ UNCHANGED <<storeVars, gateVars, timerVars, optionVars, busVars>>

\* the promise connect() returns: Promise.resolve() when connected or
\* connecting, else a new promise that the callbacks of the new client settle
ConnectPromise ==
  IF connected \/ connecting
  THEN [state |-> "resolved", at |-> Status]
  ELSE [state |-> "pending", at |-> "none"]

\* resolve() / reject() of the promise the client was created in: settling a
\* settled promise does nothing
Settle(ps, k, outcome, status) ==
  IF k # 0 /\ ps[k].state = "pending"
  THEN [ps EXCEPT ![k] = [state |-> outcome, at |-> status]]
  ELSE ps

\* onConnect of the active client: the handshake completed on a fresh socket
\* (the fields of WebSocketService it writes)
OnConnectClient ==
  /\ clientActive /\ ~connected
  /\ nextSubId <= MaxSubscribes
  /\ connected' = TRUE
  /\ connecting' = FALSE
  /\ stompSubs' = { [id |-> nextSubId, topic |-> PersonalKey] }
  /\ subscriptions' = MapSet(subscriptions, PersonalKey, nextSubId)
  /\ nextSubId' = nextSubId + 1
  /\ extracted' = <<>>
  /\ wsLog' = << [type |-> "websocket.connected"] >>
  /\ wsCall' = [op |-> "onConnect"]
  /\ UNCHANGED <<clientActive, wsGameId>>

\* onConnect while nothing listens to websocket.connected
OnConnect ==
  /\ OnConnectClient
  /\ UNCHANGED <<storeVars, gateVars, timerVars, optionVars, busVars>>

\* onStompError / onWebSocketError of the active client
OnError ==
  /\ clientActive
  /\ connected' = FALSE
  /\ connecting' = FALSE
  /\ wsLog' = << [type |-> "websocket.error"] >>
  /\ wsCall' = [op |-> "onError"]
  /\ UNCHANGED <<clientActive, wsGameId, subscriptions, stompSubs, nextSubId, extracted>>
  /\ UNCHANGED <<storeVars, gateVars, timerVars, optionVars, busVars>>

\* variant: only the personal queue is unsubscribed
UnsubscribeAll_PersonalOnly(map) == { e.sub : e \in { x \in map : x.key = PersonalKey } }

\* this.subscriptions.forEach(subscription => subscription.unsubscribe())
UnsubscribeAll(map) == { e.sub : e \in map }

\* disconnect(): deactivate() closes the channel and with it every subscription
\* (the fields of WebSocketService it writes)
DisconnectClient ==
  /\ IF clientActive /\ connected
     THEN /\ subscriptions' = {}
          /\ stompSubs' = {}
          /\ clientActive' = FALSE
          /\ connected' = FALSE
          /\ wsGameId' = Null
          /\ wsLog' = << [type |-> "websocket.disconnected"] >>
          /\ wsCall' = [op |-> "disconnect", unsubscribed |-> UnsubscribeAll(subscriptions),
                        deactivated |-> TRUE]
     ELSE /\ UNCHANGED <<subscriptions, stompSubs, clientActive, connected, wsGameId>>
          /\ wsLog' = <<>>
          /\ wsCall' = [op |-> "disconnect", unsubscribed |-> {}, deactivated |-> FALSE]
  /\ UNCHANGED <<connecting, nextSubId, extracted>>

\* disconnect() while nothing listens to websocket.disconnected
Disconnect ==
  /\ DisconnectClient
  /\ UNCHANGED <<storeVars, gateVars, timerVars, optionVars, busVars>>

\* a GAME_CREATED frame on the personal queue: handleGameCreated(response)
HandleGameCreated(message) ==
  /\ PersonalQueueOpen
  /\ nextSubId <= MaxSubscribes
  /\ Len(extracted) < MaxAcks
  /\ LET gameId == ExtractGameId(message)
     IN  /\ extracted' = Append(extracted, gameId)
         /\ IF gameId # Null
            THEN /\ wsGameId' = gameId
                 /\ SubscribeToGameEvents(gameId)
                 /\ wsLog' = << [type |-> "game.created", gameId |-> gameId] >>
            ELSE /\ UNCHANGED <<wsGameId, subscriptions, stompSubs, nextSubId>>
                 /\ wsLog' = <<>>
  /\ wsCall' = [op |-> "created"]
  /\ UNCHANGED <<connected, connecting, clientActive>>
  /\ UNCHANGED <<storeVars, gateVars, timerVars, optionVars, busVars>>

\* variant: the message is published without looking at the flag
SendLog_Unguarded(isConnected, destination, payload) ==
  << [type |-> "send", destination |-> destination, payload |-> payload] >>

\* send(destination, payload): what goes out on the channel or on the bus
SendLog(isConnected, destination, payload) ==
  IF ~isConnected
  THEN << [type |-> "websocket.error", error |-> "Not connected"] >>
  ELSE << [type |-> "send", destination |-> destination, payload |-> payload] >>

Destinations == { "/app/game.create", "/app/game.roll", "/app/game.state" }

\* createGame(), rollDice(), getGameState(): this.send(destination, payload)
Send(destination) ==
  /\ wsLog' = SendLog(connected, destination, Null)
  /\ wsCall' = [op |-> "send", threw |-> FALSE]
  /\ UNCHANGED <<connected, connecting, clientActive, wsGameId, subscriptions, stompSubs,
                 nextSubId, extracted>>
  /\ UNCHANGED <<storeVars, gateVars, timerVars, optionVars, busVars>>

\* joinGame(gameId)
JoinGame(gameId) ==
  /\ wsGameId' = gameId
  /\ wsLog' = SendLog(connected, "/app/game.join", gameId)
  /\ wsCall' = [op |-> "join"]
  /\ UNCHANGED <<connected, connecting, clientActive, subscriptions, stompSubs, nextSubId,
                 extracted>>
  /\ UNCHANGED <<storeVars, gateVars, timerVars, optionVars, busVars>>

\* a JOINED_GAME frame on the personal queue: handleJoinedGame(response)
HandleJoinedGame ==
  /\ PersonalQueueOpen
  /\ nextSubId <= MaxSubscribes
  /\ IF wsGameId # Null
     THEN /\ SubscribeToGameEvents(wsGameId)
          /\ wsLog' = << [type |-> "game.joined", gameId |-> wsGameId] >>
     ELSE /\ UNCHANGED <<subscriptions, stompSubs, nextSubId>>
          /\ wsLog' = <<>>
  /\ wsCall' = [op |-> "joined"]
  /\ UNCHANGED <<connected, connecting, clientActive, wsGameId, extracted>>
  /\ UNCHANGED <<storeVars, gateVars, timerVars, optionVars, busVars>>

InitWs ==
  /\ connected = FALSE /\ connecting = FALSE /\ clientActive = FALSE
  /\ wsGameId = Null /\ subscriptions = {} /\ stompSubs = {} /\ nextSubId = 1
  /\ extracted = <<>> /\ wsLog = <<>>
  /\ wsCall = [op |-> "init"] /\ promises = <<>> /\ clientPromise = 0

NextWs ==
  \/ Connect /\ UNCHANGED <<promises, clientPromise>>
  \/ OnConnect /\ UNCHANGED <<promises, clientPromise>>
  \/ OnError /\ UNCHANGED <<promises, clientPromise>>
  \/ Disconnect /\ UNCHANGED <<promises, clientPromise>>
  \/ \E message \in AckMessages :
       HandleGameCreated(message) /\ UNCHANGED <<promises, clientPromise>>
  \/ \E gameId \in JoinableIds : JoinGame(gameId) /\ UNCHANGED <<promises, clientPromise>>
  \/ HandleJoinedGame /\ UNCHANGED <<promises, clientPromise>>
  \/ \E destination \in Destinations :
       Send(destination) /\ UNCHANGED <<promises, clientPromise>>

\* the connection lifecycle with the promise of every connect() call followed
NextLifecycle ==
  \/ /\ Len(promises) < MaxConnects
     /\ Connect
     /\ promises' = Append(promises, ConnectPromise)
     /\ clientPromise' = IF connected \/ connecting THEN clientPromise
                         ELSE Len(promises) + 1
  \/ /\ OnConnect
     /\ promises' = Settle(promises, clientPromise, "resolved", "Connected")
     /\ UNCHANGED clientPromise
  \/ /\ OnError
     /\ promises' = Settle(promises, clientPromise, "rejected", "Disconnected")
     /\ UNCHANGED clientPromise
  \/ Disconnect /\ UNCHANGED <<promises, clientPromise>>
  \/ \E destination \in Destinations :
       Send(destination) /\ UNCHANGED <<promises, clientPromise>>

(***************************************************************************)
(* Properties of the protocol router                                       *)
(***************************************************************************)
OpenGameSubscriptions(gameId) == { sub \in stompSubs : sub.topic = GameKey(gameId) }

\* C8: when the creation ack "Game ABCD created" is received twice, the game id
\* ABCD is extracted both times and exactly one broadcast subscription for that
\* game is open on the transport.
C8_AckIdempotent ==
  (Len(extracted) = 2 /\ extracted[1] = Text(<<"A","B","C","D">>)
                      /\ extracted[2] = Text(<<"A","B","C","D">>))
    => Cardinality(OpenGameSubscriptions(Text(<<"A","B","C","D">>))) = 1

\* C29 as stated: handling a JOINED_GAME frame always opens the broadcast
\* subscription of the joined game and emits game.joined with that game id
C29_JoinAckAlways ==
  [][ wsCall'.op = "joined" =>
        \E gameId \in (JoinableIds \cup { wsGameId }) \ { Null } :
          /\ \E sub \in stompSubs' \ stompSubs : sub.topic = GameKey(gameId)
          /\ wsLog' = << [type |-> "game.joined", gameId |-> gameId] >> ]_vars

\* C29 amended: handling a JOINED_GAME frame while the service holds a game id
\* opens the broadcast subscription of that id, stores its handle and emits
\* game.joined with that id; while it holds none, nothing is subscribed and
\* nothing is emitted
C29_JoinAckWithId ==
  [][ wsCall'.op = "joined" =>
        IF wsGameId # Null
        THEN /\ \E sub \in stompSubs' \ stompSubs :
                  /\ sub.topic = GameKey(wsGameId)
                  /\ [key |-> GameKey(wsGameId), sub |-> sub.id] \in subscriptions'
             /\ wsLog' = << [type |-> "game.joined", gameId |-> wsGameId] >>
        ELSE /\ stompSubs' = stompSubs
             /\ subscriptions' = subscriptions
             /\ wsLog' = <<>> ]_vars

\* a join of game Z9 was acknowledged on an open connection
C29_Witness ==
  /\ wsCall.op = "joined"
  /\ connected
  /\ wsGameId = Text(<<"Z","9">>)
  /\ wsLog = << [type |-> "game.joined", gameId |-> wsGameId] >>
  /\ \E sub \in stompSubs : sub.topic = GameKey(wsGameId)

\* C35: connected and connecting are never both true, and a connect() call
\* made while either is true creates no client, starts no handshake and leaves
\* both flags as they were
C35_SingleClient ==
  /\ [](~(connected /\ connecting))
  /\ [][ (wsCall'.op = "connect" /\ (connected \/ connecting)) =>
           /\ wsLog' = << [type |-> "connect.noop"] >>
           /\ clientActive' = clientActive
           /\ connected' = connected
           /\ connecting' = connecting
           /\ stompSubs' = stompSubs ]_vars

\* connect() was called while the handshake of an earlier call was under way
C35_Witness ==
  /\ wsCall.op = "connect"
  /\ wsLog = << [type |-> "connect.noop"] >>
  /\ connecting /\ ~connected
  /\ clientActive

\* C14: the connection status changes only along Disconnected -> Connecting,
\* Connecting -> Connected, Connected -> Disconnected and Connecting ->
\* Disconnected, whatever the order of connect(), disconnect() and the
\* handshake and error callbacks.
C14_StatusMachine ==
  [][ Status' # Status =>
        <<Status, Status'>> \in { <<"Disconnected", "Connecting">>,
                                  <<"Connecting", "Connected">>,
                                  <<"Connected", "Disconnected">>,
                                  <<"Connecting", "Disconnected">> } ]_vars

\* C15: every promise connect() returned, also one returned while an earlier
\* attempt is still connecting, is resolved only once the status is Connected
\* and is rejected when the attempt fails.
C15_PromiseFollowsHandshake ==
  \A k \in 1..Len(promises) :
    /\ promises[k].state = "resolved" => promises[k].at = "Connected"
    /\ promises[k].state = "rejected" => promises[k].at = "Disconnected"

\* C16: send called while the transport is not connected publishes nothing,
\* emits exactly one websocket.error event, does not throw, and leaves the
\* status, the game id and the subscriptions as they were.
C16_SendWhenDown ==
  [][ (wsCall'.op = "send" /\ ~connected) =>
        /\ wsLog' = << [type |-> "websocket.error", error |-> "Not connected"] >>
        /\ ~wsCall'.threw
        /\ UNCHANGED <<connected, connecting, wsGameId, subscriptions, stompSubs>> ]_vars

\* a send made while a handshake is still awaited, in a game that was chosen
C16_Witness ==
  /\ wsCall.op = "send"
  /\ connecting /\ ~connected
  /\ wsGameId # Null
  /\ wsLog = << [type |-> "websocket.error", error |-> "Not connected"] >>

\* C17: disconnect() called while connected unsubscribes every subscription the
\* service holds, empties the subscription map, closes the channel, leaves the
\* status Disconnected and the game id null, and emits exactly one
\* websocket.disconnected event.
C17_DisconnectCleans ==
  [][ (wsCall'.op = "disconnect" /\ connected) =>
        /\ wsCall'.unsubscribed = { e.sub : e \in subscriptions }
        /\ wsCall'.deactivated
        /\ subscriptions' = {}
        /\ stompSubs' = {}
        /\ ~clientActive'
        /\ Status' = "Disconnected"
        /\ wsGameId' = Null
        /\ wsLog' = << [type |-> "websocket.disconnected"] >> ]_vars

\* a disconnect that unsubscribed the personal queue and a game topic
C17_Witness ==
  /\ wsCall.op = "disconnect"
  /\ wsCall.deactivated
  /\ Cardinality(wsCall.unsubscribed) >= 2
  /\ subscriptions = {} /\ stompSubs = {} /\ wsGameId = Null /\ ~connected

\* C24: a MOVE_OPTIONS frame whose message holds a marker phrase, or both "1."
\* and "Move", is parsed and leads to a moves.available event: the handler sets
\* the callback that emits it and emits no game.input.required. Every other
\* MOVE_OPTIONS frame, one with an empty or missing message included, emits
\* exactly one game.input.required and sets no callback.
C24_ClassificationGate ==
  /\ [][ \A e \in OptionMessageTable : \A ok \in BOOLEAN : \A d \in OptionPayloads :
           ( /\ lastFrame' # Null
             /\ lastFrame'.frame = [type |-> "MOVE_OPTIONS", success |-> ok,
                                    message |-> e.message, data |-> d]
             /\ OptionsFrame(lastFrame'.frame) ) =>
             IF e.marked
             THEN /\ Len(moveTimers') = Len(moveTimers) + 1
                  /\ moveTimers'[Len(moveTimers')].rawMessage = e.message
                  /\ Len(EventsOfType(busLog', "game.input.required")) = 0
             ELSE /\ moveTimers' = moveTimers
                  /\ Len(EventsOfType(busLog', "game.input.required")) = 1
                  /\ Len(EventsOfType(busLog', "moves.available")) = 0 ]_vars
  /\ \A e \in OptionMessageTable :
       (\E i \in 1..Len(moveTimers) : moveTimers[i].rawMessage = e.message)
         ~> (/\ Len(busLog) = 1
             /\ busLog[1].type = "moves.available"
             /\ busLog[1].rawMessage = e.message)

\* a frame whose "1." does not open the message was classified as move options
C24_Witness ==
  /\ lastFrame # Null
  /\ lastFrame.frame.type = "MOVE_OPTIONS"
  /\ lastFrame.frame.message = Text(<<"M","o","v","e"," ","A"," ","o","r"," ","1",".">>)
  /\ Len(moveTimers) = 1
  /\ moveTimers[1].rawMessage = lastFrame.frame.message

\* C25: a CAPTURE_OPTIONS frame is handled as the MOVE_OPTIONS frame with the
\* same success flag, message and data: the same state update, the same
\* classification and the same callback or game.input.required event.
C25_CaptureAsMove ==
  [][ \A frame \in OptionFrames :
        ( /\ frame.type = "CAPTURE_OPTIONS"
          /\ lastFrame' # Null
          /\ lastFrame'.frame = frame
          /\ OptionsFrame(frame) ) =>
          LET twin == [frame EXCEPT !.type = "MOVE_OPTIONS"]
          IN  FrameEffects("personal", twin, FrameRun("personal", twin)) ]_vars

\* a capture frame with a snapshot and a list of moves was applied and queued
C25_Witness ==
  /\ lastFrame # Null
  /\ lastFrame.frame.type = "CAPTURE_OPTIONS"
  /\ lastFrame.frame.success
  /\ currentState # Null
  /\ currentState = lastFrame.frame.data
  /\ Len(moveTimers) = 1
  /\ Len(moveTimers[1].moves) = 2

(***************************************************************************)
(* GameService: the public action methods                                  *)
(***************************************************************************)
ActionNames == { "createGame", "joinGame", "rollDice", "selectPiece", "requestGameState" }

\* arguments the UI passes: joinGame(gameId), selectPiece(pieceIndex)
GameIdArgs == { Null, Text(<<>>), Text(<<" ">>), Text(<<"A","B","C","D">>) }
PieceIndexArgs == { [notNumber |-> TRUE], [number |-> -1], [number |-> 0] }

ActionArgs(action) ==
  CASE action = "joinGame"    -> GameIdArgs
    [] action = "selectPiece" -> PieceIndexArgs
    [] OTHER                  -> { Null }

ErrorEvent(text) == [type |-> "game.error", error |-> text]

PlayerId == [playerId |-> "self"]

Refused(events) == [events |-> events, call |-> Null]
Forwarded(destination, payload) ==
  [events |-> <<>>, call |-> [destination |-> destination, payload |-> payload]]

\* createGame()
CreateGameCall(isConnected) ==
  IF ~isConnected
  THEN Refused(<< ErrorEvent("Not connected to server") >>)
  ELSE Forwarded("/app/game.create", PlayerId)

\* joinGame(gameId)
JoinGameCall(isConnected, gameId) ==
  IF ~isConnected
  THEN Refused(<< ErrorEvent("Not connected to server") >>)
  ELSE IF gameId = Null \/ Len(gameId.text) = 0 \/ Len(Trim(gameId.text)) = 0
       THEN Refused(<< ErrorEvent("Invalid game ID") >>)
       ELSE Forwarded("/app/game.join", [gameId |-> gameId, playerId |-> "self"])

\* rollDice()
RollDiceCall(isConnected, currentGameId) ==
  IF ~isConnected \/ currentGameId = Null
  THEN Refused(<< ErrorEvent("Not in an active game") >>)
  ELSE Forwarded("/app/game.roll", Null)

\* selectPiece(pieceIndex)
SelectPieceCall(isConnected, currentGameId, pieceIndex) ==
  IF ~isConnected \/ currentGameId = Null
  THEN Refused(<< ErrorEvent("Not in an active game") >>)
  ELSE IF "number" \notin DOMAIN pieceIndex \/ pieceIndex.number < 0
       THEN Refused(<< ErrorEvent("Invalid piece selection") >>)
       ELSE Forwarded("/app/game.choice", [choice |-> pieceIndex.number])

\* requestGameState(): the guard logs to the console and returns
RequestGameStateCall(isConnected, currentGameId) ==
  IF RequestGameState(isConnected, currentGameId) = <<>>
  THEN Refused(<<>>)
  ELSE Forwarded("/app/game.state", Null)

ActionCall(action, isConnected, currentGameId, arg) ==
  CASE action = "createGame"       -> CreateGameCall(isConnected)
    [] action = "joinGame"         -> JoinGameCall(isConnected, arg)
    [] action = "rollDice"         -> RollDiceCall(isConnected, currentGameId)
    [] action = "selectPiece"      -> SelectPieceCall(isConnected, currentGameId, arg)
    [] action = "requestGameState" -> RequestGameStateCall(isConnected, currentGameId)

\* listener of websocket.error in GameService: game.error with the same data
RelayErrors(log) ==
  LET errors == SelectSeq(log, LAMBDA e : e.type = "websocket.error")
  IN  [i \in 1..Len(errors) |-> ErrorEvent(errors[i].error)]

\* the actions that need a game id as well as a connection
NeedsGame == { "rollDice", "selectPiece", "requestGameState" }

\* one call of an action method by the UI, with the call it makes on
\* WebSocketService and what send() does with it
ServiceAction(action, arg) ==
  LET run == ActionCall(action, svcConnected, svcGameId, arg)
      out == IF run.call = Null
             THEN <<>>
             ELSE SendLog(connected, run.call.destination, run.call.payload)
  IN  /\ busLog' = run.events \o RelayErrors(out)
      /\ wsLog' = out
      /\ wsGameId' = IF action = "joinGame" /\ run.call # Null THEN arg ELSE wsGameId
      /\ wsCall' = [op |-> "action", action |-> action,
                    notReady |-> ~svcConnected \/ (action \in NeedsGame /\ svcGameId = Null),
                    threw |-> FALSE]
      /\ UNCHANGED <<currentState, lastCall, overHistory, endedCount, svcConnected,
                     svcGameId, afterDisconnect, lastFrame>>
      /\ UNCHANGED <<connected, connecting, clientActive, subscriptions, stompSubs,
                     nextSubId, extracted>>
      /\ UNCHANGED <<gateVars, timerVars, optionVars, busVars>>

\* listener of websocket.connected in GameService
WebsocketConnected ==
  /\ svcConnected' = TRUE
  /\ busLog' = << [type |-> "game.connection.established"] >>
  /\ UNCHANGED <<currentState, lastCall, overHistory, endedCount, svcGameId,
                 afterDisconnect, lastFrame>>

\* onConnect with the listener of GameService run by its emit
Handshake ==
  /\ OnConnectClient
  /\ WebsocketConnected
  /\ UNCHANGED <<gateVars, timerVars, optionVars, busVars>>

\* GameService.disconnect(): the transport is closed (its websocket.disconnected
\* reaches the listener when it was connected), then the three fields are reset
GameServiceDisconnect ==
  /\ DisconnectClient
  /\ svcConnected' = FALSE
  /\ currentState' = Null
  /\ svcGameId' = Null
  /\ busLog' = IF clientActive /\ connected
               THEN << [type |-> "game.connection.lost"] >>
               ELSE <<>>
  /\ lastCall' = Null
  /\ overHistory' = <<>>
  /\ endedCount' = 0
  /\ afterDisconnect' = IF currentState # Null THEN "lost" ELSE "no"
  /\ lastFrame' = Null
  /\ UNCHANGED <<gateVars, timerVars, optionVars, busVars>>

NextActions ==
  \/ Connect /\ UNCHANGED <<promises, clientPromise>>
  \/ Handshake /\ UNCHANGED <<promises, clientPromise>>
  \/ OnError /\ UNCHANGED <<promises, clientPromise>>
  \/ GameServiceDisconnect /\ UNCHANGED <<promises, clientPromise>>
  \/ \E gameId \in GameIds : GameEntered(gameId)
  \/ \E action \in ActionNames : \E arg \in ActionArgs(action) :
       ServiceAction(action, arg) /\ UNCHANGED <<promises, clientPromise>>

\* C34: between handlers GameService.isConnected equals
\* WebSocketService.connected, after any sequence of connect, handshake,
\* transport error and disconnect
C34_FlagsAgree ==
  svcConnected = connected

\* C21: an action method called while the service is not connected, or (for
\* rollDice, selectPiece and requestGameState) holds no game id, publishes
\* nothing on the transport, emits a game.error event and does not throw
C21_ActionRejected ==
  [][ \A action \in ActionNames : \A arg \in ActionArgs(action) :
        ( /\ ServiceAction(action, arg)
          /\ ~svcConnected \/ (action \in NeedsGame /\ svcGameId = Null) ) =>
            /\ \A i \in 1..Len(wsLog') : wsLog'[i].type # "send"
            /\ \E i \in 1..Len(busLog') : busLog'[i].type = "game.error"
            /\ ~wsCall'.threw ]_vars

(***************************************************************************)
(* EventBus: emit, subscribe, unsubscribe for one event name               *)
(***************************************************************************)
\* the functions that get registered: one returns, one throws, one removes
\* itself when called, one registers callback 1 when called
Callbacks ==
  { [id |-> 1, does |-> "return"], [id |-> 2, does |-> "throw"],
    [id |-> 3, does |-> "unsubscribe"], [id |-> 4, does |-> "subscribe"] }
CallbackOf(id) == CHOOSE cb \in Callbacks : cb.id = id
EventData == { "d1", "d2" }

\* this.listeners[event].filter(cb => cb !== callback)
Filter(array, callback) == SelectSeq(array, LAMBDA cb : cb # callback)

\* variant: the callback is called outside any try block
CallOutcome_Uncaught(callback) ==
  IF callback.does = "throw" THEN "propagated" ELSE "returned"

\* try { callback(data) } catch (error) { console.error(...) }
CallOutcome(callback) ==
  IF callback.does = "throw" THEN "caught" ELSE "returned"

\* what calling the callback does to listeners[event]. iterated is the array
\* forEach walks, current the array the property holds, same whether they are
\* one object: unsubscribe stores a new array, subscribe pushes onto the one held
CallEffect(callback, iterated, current, same) ==
  CASE callback.does = "unsubscribe" ->
         [iterated |-> iterated, current |-> Filter(current, callback), same |-> FALSE]
    [] callback.does = "subscribe" ->
         [iterated |-> IF same THEN Append(iterated, CallbackOf(1)) ELSE iterated,
          current  |-> Append(current, CallbackOf(1)),
          same     |-> same]
    [] OTHER ->
         [iterated |-> iterated, current |-> current, same |-> same]

\* Array.prototype.forEach from index i: the range is the length the array had
\* when forEach was called; an exception a call lets out ends the walk
RECURSIVE ForEach(_, _, _, _, _, _, _)
ForEach(iterated, current, same, i, len, data, calls) ==
  IF i > len
  THEN [listeners |-> current, calls |-> calls, propagated |-> FALSE]
  ELSE LET callback == iterated[i]
           after    == CallEffect(callback, iterated, current, same)
           made     == Append(calls, [id |-> callback.id, data |-> data,
                                      outcome |-> CallOutcome(callback)])
       IN  IF CallOutcome(callback) = "propagated"
           THEN [listeners |-> after.current, calls |-> made, propagated |-> TRUE]
           ELSE ForEach(after.iterated, after.current, after.same, i + 1, len, data, made)

\* emit(event, data) as a function of the array registered for the event
EmitRun(array, data) == ForEach(array, array, TRUE, 1, Len(array), data, <<>>)

\* emit(event, data)
Emit(data) ==
  LET run == EmitRun(listeners, data)
  IN  /\ Len(run.listeners) <= MaxListeners
      /\ listeners' = run.listeners
      /\ emitLog' = [data |-> data, before |-> listeners, calls |-> run.calls,
                     propagated |-> run.propagated]
      /\ UNCHANGED <<storeVars, gateVars, timerVars, wsVars, optionVars>>

\* subscribe(event, callback)
Subscribe(callback) ==
  /\ Len(listeners) < MaxListeners
  /\ listeners' = Append(listeners, callback)
  /\ UNCHANGED emitLog
  /\ UNCHANGED <<storeVars, gateVars, timerVars, wsVars, optionVars>>

\* unsubscribe(event, callback)
Unsubscribe(callback) ==
  /\ listeners' = Filter(listeners, callback)
  /\ UNCHANGED emitLog
  /\ UNCHANGED <<storeVars, gateVars, timerVars, wsVars, optionVars>>

InitBus == listeners = <<>> /\ emitLog = Null

NextBus ==
  \/ \E data \in EventData : Emit(data)
  \/ \E callback \in Callbacks : Subscribe(callback)
  \/ \E callback \in Callbacks : Unsubscribe(callback)

\* C38: emit isolates listeners. Every callback registered when emit is called
\* is called once, in registration order, with the data of the emit, also when
\* callbacks before it threw, and no exception reaches the caller of emit
C38_EmitIsolates ==
  emitLog # Null =>
    /\ ~emitLog.propagated
    /\ Len(emitLog.calls) = Len(emitLog.before)
    /\ \A i \in 1..Len(emitLog.calls) :
          /\ emitLog.calls[i].id = emitLog.before[i].id
          /\ emitLog.calls[i].data = emitLog.data

\* the first of three listeners threw and the other two were called after it
C38_Witness ==
  /\ emitLog # Null
  /\ Len(emitLog.before) = 3
  /\ emitLog.before[1].does = "throw"
  /\ emitLog.calls[1].outcome = "caught"
  /\ emitLog.calls[2].id = emitLog.before[2].id
  /\ emitLog.calls[3].id = emitLog.before[3].id
  /\ emitLog.before[2] # emitLog.before[1]

Init == InitStore /\ InitGate /\ InitTimer /\ InitWs /\ InitParserIdle /\ InitBus

SpecStore == Init /\ [][NextStore]_vars

SpecSequence == Init /\ [][NextSequence]_vars

SpecFrames == Init /\ [][NextFrames]_vars

SpecGate == Init /\ [][NextGate]_vars

SpecTimer == Init /\ [][NextTimer]_vars

SpecConnection == Init /\ [][NextConnection]_vars

SpecWs == Init /\ [][NextWs]_vars

SpecLifecycle == Init /\ [][NextLifecycle]_vars

\* a timeline that was started runs to its end: gsap calls onComplete
SpecGateFair == Init /\ [][NextGate]_vars /\ WF_vars(AnimationComplete)

\* the frames of SpecFrames and the game-started broadcast
NextBroadcast ==
  \/ NextFrames
  \/ \E frame \in StartedFrames : GameStarted(frame)

SpecBroadcast == Init /\ [][NextBroadcast]_vars

SpecTurns == Init /\ [][NextTurns]_vars

SpecBus == Init /\ [][NextBus]_vars

SpecActions == Init /\ [][NextActions]_vars

\* the timers of a page that stays open run: a callback that waits is called
SpecOptions == Init /\ [][NextOptions]_vars /\ WF_vars(MoveTimerFires)

\* a freshly constructed page about to parse one message text
InitTexts == InitStore /\ InitGate /\ InitTimer /\ InitWs /\ InitParser /\ InitBus

SpecParser == InitTexts /\ [][NextParser]_vars

Next == NextStore \/ NextSequence \/ NextFrames \/ NextBroadcast \/ NextTurns \/ NextBus \/ NextGate \/ NextTimer \/ NextConnection \/ NextWs \/ NextLifecycle \/ NextActions \/ NextParser \/ NextOptions

Spec == Init /\ [][Next]_vars

====
